---------------------------- MODULE Spec2Model ----------------------------
(***************************************************************************)
(* A model of the gammaton simulation core of aitios-sim: substance        *)
(* transport between particles (tons) and surfels (transport.rs, sim.rs),  *)
(* motion probability deterioration (sim.rs), and the layered iteration    *)
(* Simulation::run_fast (sim.rs).                                          *)
(*                                                                         *)
(* f32 quantities that are multiplied (substances, rates, weights) are     *)
(* modelled as exact rationals <<n, d>> in lowest terms with d > 0, so the *)
(* model states the arithmetic of the code without floating-point          *)
(* rounding.  Motion probabilities and deltas are only ever added,         *)
(* subtracted and compared, so they are integers counting units of         *)
(* 1/PScale.                                                               *)
(***************************************************************************)
EXTENDS Integers, Sequences, FiniteSets, TLC

VARIABLES
    sources,          \* Simulation.sources: sequence of TonSource records
    surface,          \* Simulation.surface.samples: sequence of SurfelData records
    surfel_rules,     \* Simulation.surfel_rules: the global rules
    config,           \* config::Transport variant used by Transport::perform
    closed,           \* whether the traced scene is closed (a trace can never miss)
    pc,               \* position inside run_fast / trace_deepen
    src_k,            \* index of the `for source in &self.sources` loop
    emissions,        \* the `emissions` vector of run_fast
    hits,             \* the `hits` vector: records [ton, point, side]
    interaction_info, \* the `interaction_info` vector of trace_deepen
    done,             \* indices of the current parallel phase's finished tasks
    results,          \* next-hit phase: the Option<Hit> each finished task produced
    ex_i,             \* serial exchange: index of the hit being exchanged
    ex_j,             \* serial exchange: position inside that hit's surfel_idxs
    layer,            \* number of trace_deepen calls of this iteration (history)
    panicked,         \* an assert_eq! failed
    trace,            \* the arguments and locals of a Tracer call in progress
    hist              \* history of the operations performed, with their pre-states

vars == <<sources, surface, surfel_rules, config, closed, pc, src_k, emissions,
          hits, interaction_info, done, results, ex_i, ex_j, layer, panicked,
          trace, hist>>

\* the control state of run_fast, which the single-operation specifications
\* leave alone
ctl == <<pc, src_k, emissions, interaction_info, done, results, ex_i, ex_j, layer,
         trace>>

-----------------------------------------------------------------------------
(* Exact rational arithmetic standing for f32 arithmetic.                  *)

Abs(x) == IF x < 0 THEN -x ELSE x

RECURSIVE Gcd(_, _)
Gcd(a, b) == IF b = 0 THEN a ELSE Gcd(b, a % b)

Norm(n, d) ==
    LET g == Gcd(Abs(n), Abs(d))
        s == IF d < 0 THEN -1 ELSE 1
    IN  <<(s * n) \div g, (s * d) \div g>>

R(n, d)    == Norm(n, d)
RInt(k)    == <<k, 1>>
RZero      == <<0, 1>>
\* a and b over their least common denominator: <<numerator of a, numerator
\* of b, denominator>>
Common(a, b) ==
    LET g == Gcd(a[2], b[2])
    IN  <<a[1] * (b[2] \div g), b[1] * (a[2] \div g), (a[2] \div g) * b[2]>>

RAdd(a, b) == LET c == Common(a, b) IN Norm(c[1] + c[2], c[3])
RSub(a, b) == LET c == Common(a, b) IN Norm(c[1] - c[2], c[3])
\* the product; large operands have their common factors taken out before
\* they are multiplied
RMul(a, b) ==
    IF Abs(a[1]) < 32768 /\ Abs(b[1]) < 32768 /\ a[2] < 32768 /\ b[2] < 32768
    THEN Norm(a[1] * b[1], a[2] * b[2])
    ELSE LET g1 == Gcd(Abs(a[1]), b[2])
             g2 == Gcd(Abs(b[1]), a[2])
         IN  Norm((a[1] \div g1) * (b[1] \div g2),
                  (a[2] \div g2) * (b[2] \div g1))
RDiv(a, b) == RMul(a, IF b[1] < 0 THEN <<-b[2], -b[1]>> ELSE <<b[2], b[1]>>)
RNeg(a)    == <<-a[1], a[2]>>
RLt(a, b)  == LET c == Common(a, b) IN c[1] < c[2]
RLeq(a, b) == LET c == Common(a, b) IN c[1] <= c[2]
RGt(a, b)  == RLt(b, a)
RGeq(a, b) == RLeq(b, a)
\* f32::max(self, 0.0)
RMax0(a)   == IF RLt(a, RZero) THEN RZero ELSE a
\* (n as f32).recip()
Recip(n)   == <<1, n>>

Min(a, b)  == IF a < b THEN a ELSE b

RECURSIVE SumSeq(_)
\* the sum of a sequence of rationals
SumSeq(s) == IF s = <<>> THEN RZero ELSE RAdd(s[1], SumSeq(Tail(s)))

-----------------------------------------------------------------------------
(* Substance transport rules (transport.rs).  Each rule takes the ton, the *)
(* interacting surfel's data and count_weight and gives the record         *)
(* [ton, surfel, panic]: the two values after the call, or panic = TRUE    *)
(* and both unchanged when the assert_eq! on the substance lengths fails.  *)
(* Iterator zips stop at the shortest of the zipped vectors.               *)

Result(ton, surfel, panic) == [ton |-> ton, surfel |-> surfel, panic |-> panic]

\* assert_eq!(interacting_surfel.substances.len(), ton.substances.len(), ..)
LengthsAgree(ton, surfel) == Len(surfel.substances) = Len(ton.substances)

\* absorb with the sign test lost: the amount is always taken from the surfel
absorb_always_from_surfel(ton, surfel, count_weight) ==
    IF ~LengthsAgree(ton, surfel) THEN Result(ton, surfel, TRUE)
    ELSE
    LET n == Min(Len(ton.pickup_rates),
                 Min(Len(ton.substances), Len(surfel.substances)))
        pickup_rate(i) == RMul(count_weight, ton.pickup_rates[i])
        transport_amount(i) == RMul(pickup_rate(i), surfel.substances[i])
    IN  Result(
          [ton EXCEPT !.substances =
              [i \in 1..Len(ton.substances) |->
                  IF i <= n THEN RMax0(RAdd(ton.substances[i], transport_amount(i)))
                  ELSE ton.substances[i]]],
          [surfel EXCEPT !.substances =
              [i \in 1..Len(surfel.substances) |->
                  IF i <= n THEN RMax0(RSub(surfel.substances[i], transport_amount(i)))
                  ELSE surfel.substances[i]]],
          FALSE)

\* fn absorb (transport.rs)
absorb(ton, surfel, count_weight) ==
    IF ~LengthsAgree(ton, surfel) THEN Result(ton, surfel, TRUE)
    ELSE
    LET n == Min(Len(ton.pickup_rates),
                 Min(Len(ton.substances), Len(surfel.substances)))
        pickup_rate(i) == RMul(count_weight, ton.pickup_rates[i])
        transport_amount(i) ==
            RMul(pickup_rate(i),
                 IF RGeq(pickup_rate(i), RZero) THEN surfel.substances[i]
                 ELSE ton.substances[i])
    IN  Result(
          [ton EXCEPT !.substances =
              [i \in 1..Len(ton.substances) |->
                  IF i <= n THEN RMax0(RAdd(ton.substances[i], transport_amount(i)))
                  ELSE ton.substances[i]]],
          [surfel EXCEPT !.substances =
              [i \in 1..Len(surfel.substances) |->
                  IF i <= n THEN RMax0(RSub(surfel.substances[i], transport_amount(i)))
                  ELSE surfel.substances[i]]],
          FALSE)

\* deposit that adds to the surfel without taking from the ton
deposit_keeps_ton(ton, surfel, count_weight) ==
    IF ~LengthsAgree(ton, surfel) THEN Result(ton, surfel, TRUE)
    ELSE
    LET n == Min(Len(surfel.deposition_rates),
                 Min(Len(ton.substances), Len(surfel.substances)))
        deposition_rate(i) == RMul(count_weight, surfel.deposition_rates[i])
        transport_amount(i) == RMul(deposition_rate(i), ton.substances[i])
    IN  Result(
          ton,
          [surfel EXCEPT !.substances =
              [i \in 1..Len(surfel.substances) |->
                  IF i <= n THEN RMax0(RAdd(surfel.substances[i], transport_amount(i)))
                  ELSE surfel.substances[i]]],
          FALSE)

\* fn deposit (transport.rs): the ton gives up what the surfel receives
deposit(ton, surfel, count_weight) ==
    IF ~LengthsAgree(ton, surfel) THEN Result(ton, surfel, TRUE)
    ELSE
    LET n == Min(Len(surfel.deposition_rates),
                 Min(Len(ton.substances), Len(surfel.substances)))
        deposition_rate(i) == RMul(count_weight, surfel.deposition_rates[i])
        transport_amount(i) == RMul(deposition_rate(i), ton.substances[i])
    IN  Result(
          [ton EXCEPT !.substances =
              [i \in 1..Len(ton.substances) |->
                  IF i <= n THEN RMax0(RSub(ton.substances[i], transport_amount(i)))
                  ELSE ton.substances[i]]],
          [surfel EXCEPT !.substances =
              [i \in 1..Len(surfel.substances) |->
                  IF i <= n THEN RMax0(RAdd(surfel.substances[i], transport_amount(i)))
                  ELSE surfel.substances[i]]],
          FALSE)

\* deposit_all that forgets count_weight
deposit_all_unweighted(ton, surfel, count_weight) ==
    IF ~LengthsAgree(ton, surfel) THEN Result(ton, surfel, TRUE)
    ELSE
    LET n == Min(Len(ton.substances), Len(surfel.substances))
    IN  Result(
          ton,
          [surfel EXCEPT !.substances =
              [i \in 1..Len(surfel.substances) |->
                  IF i <= n THEN RAdd(surfel.substances[i], ton.substances[i])
                  ELSE surfel.substances[i]]],
          FALSE)

\* fn deposit_all (transport.rs)
deposit_all(ton, surfel, count_weight) ==
    IF ~LengthsAgree(ton, surfel) THEN Result(ton, surfel, TRUE)
    ELSE
    LET n == Min(Len(ton.substances), Len(surfel.substances))
    IN  Result(
          ton,
          [surfel EXCEPT !.substances =
              [i \in 1..Len(surfel.substances) |->
                  IF i <= n
                  THEN RAdd(surfel.substances[i], RMul(count_weight, ton.substances[i]))
                  ELSE surfel.substances[i]]],
          FALSE)

\* Differential that clamps what it writes at 0, as absorb and deposit do
Differential_clamped(ton, surfel, count_weight) ==
    LET nr == Min(Len(ton.pickup_rates), Len(surfel.deposition_rates))
        n  == Min(nr, Min(Len(ton.substances), Len(surfel.substances)))
        rate(i) == RMul(count_weight,
                        RSub(surfel.deposition_rates[i], ton.pickup_rates[i]))
        toSurf(i) == RGt(rate(i), RZero)
        transfer(i) == IF toSurf(i) THEN RMul(ton.substances[i], rate(i))
                       ELSE RMul(surfel.substances[i], RNeg(rate(i)))
    IN  Result(
          [ton EXCEPT !.substances =
              [i \in 1..Len(ton.substances) |->
                  IF i > n THEN ton.substances[i]
                  ELSE IF toSurf(i) THEN RMax0(RSub(ton.substances[i], transfer(i)))
                  ELSE RMax0(RAdd(ton.substances[i], transfer(i)))]],
          [surfel EXCEPT !.substances =
              [i \in 1..Len(surfel.substances) |->
                  IF i > n THEN surfel.substances[i]
                  ELSE IF toSurf(i) THEN RMax0(RAdd(surfel.substances[i], transfer(i)))
                  ELSE RMax0(RSub(surfel.substances[i], transfer(i)))]],
          FALSE)

\* impl Rule for Differential: no length assertion
Differential(ton, surfel, count_weight) ==
    LET nr == Min(Len(ton.pickup_rates), Len(surfel.deposition_rates))
        n  == Min(nr, Min(Len(ton.substances), Len(surfel.substances)))
        rate(i) == RMul(count_weight,
                        RSub(surfel.deposition_rates[i], ton.pickup_rates[i]))
        toSurf(i) == RGt(rate(i), RZero)
        transfer(i) == IF toSurf(i) THEN RMul(ton.substances[i], rate(i))
                       ELSE RMul(surfel.substances[i], RNeg(rate(i)))
    IN  Result(
          [ton EXCEPT !.substances =
              [i \in 1..Len(ton.substances) |->
                  IF i > n THEN ton.substances[i]
                  ELSE IF toSurf(i) THEN RSub(ton.substances[i], transfer(i))
                  ELSE RAdd(ton.substances[i], transfer(i))]],
          [surfel EXCEPT !.substances =
              [i \in 1..Len(surfel.substances) |->
                  IF i > n THEN surfel.substances[i]
                  ELSE IF toSurf(i) THEN RAdd(surfel.substances[i], transfer(i))
                  ELSE RSub(surfel.substances[i], transfer(i))]],
          FALSE)

\* impl Rule for AbsorbThenDeposit
AbsorbThenDeposit(ton, surfel, count_weight) ==
    LET a == absorb(ton, surfel, count_weight)
    IN  IF a.panic THEN a ELSE deposit(a.ton, a.surfel, count_weight)

Rules == {"Absorb", "Deposit", "AbsorbThenDeposit", "DepositAll", "Differential"}

\* Rule::transport, dispatched on the implementing type
transport(rule, ton, surfel, count_weight) ==
    CASE rule = "Absorb"            -> absorb(ton, surfel, count_weight)
      [] rule = "Deposit"           -> deposit(ton, surfel, count_weight)
      [] rule = "AbsorbThenDeposit" -> AbsorbThenDeposit(ton, surfel, count_weight)
      [] rule = "DepositAll"        -> deposit_all(ton, surfel, count_weight)
      [] rule = "Differential"      -> Differential(ton, surfel, count_weight)

\* config::Transport: the (bounce, settle) pair of each variant
Configs == {"Classic", "Consistent", "Conserving", "Differential"}

BounceRule(c) ==
    CASE c = "Classic"      -> "Absorb"
      [] c = "Consistent"   -> "AbsorbThenDeposit"
      [] c = "Conserving"   -> "AbsorbThenDeposit"
      [] c = "Differential" -> "Differential"

SettleRule(c) ==
    CASE c = "Classic"      -> "Deposit"
      [] c = "Consistent"   -> "AbsorbThenDeposit"
      [] c = "Conserving"   -> "DepositAll"
      [] c = "Differential" -> "Differential"

MotionType == {"Straight", "Parabolic", "Flow", "Settled"}

RECURSIVE ApplyRule(_, _, _, _, _)
\* `for idx in surfel_idxs { R::transport(ton, surface[*idx].data_mut(), count_weight) }`
\* a panic unwinds out of the loop and leaves what was written before it
ApplyRule(rule, ton, surf, idxs, count_weight) ==
    IF idxs = <<>> THEN [ton |-> ton, surface |-> surf, panic |-> FALSE]
    ELSE LET r == transport(rule, ton, surf[Head(idxs)], count_weight)
         IN  IF r.panic THEN [ton |-> ton, surface |-> surf, panic |-> TRUE]
             ELSE ApplyRule(rule, r.ton, [surf EXCEPT ![Head(idxs)] = r.surfel],
                            Tail(idxs), count_weight)

\* perform that takes Flow for a settling contact as well
perform_settle_on_flow(c, ton, surf, next_motion_type, surfel_idxs) ==
    LET count_weight == Recip(Len(surfel_idxs))
    IN  IF next_motion_type \in {"Settled", "Flow"}
        THEN ApplyRule(SettleRule(c), ton, surf, surfel_idxs, count_weight)
        ELSE ApplyRule(BounceRule(c), ton, surf, surfel_idxs, count_weight)

\* Transport::perform
perform(c, ton, surf, next_motion_type, surfel_idxs) ==
    LET count_weight == Recip(Len(surfel_idxs))
    IN  IF next_motion_type = "Settled"
        THEN ApplyRule(SettleRule(c), ton, surf, surfel_idxs, count_weight)
        ELSE ApplyRule(BounceRule(c), ton, surf, surfel_idxs, count_weight)

-----------------------------------------------------------------------------
(* Surfel rules (surfel_rule.rs, Simulation::perform_rule / perform_rules). *)

Deteriorate(substance_idx, factor) ==
    [kind |-> "Deteriorate", substance_idx |-> substance_idx, factor |-> factor]

Transfer(source_substance_idx, target_substance_idx, factor) ==
    [kind |-> "Transfer", source_substance_idx |-> source_substance_idx,
     target_substance_idx |-> target_substance_idx, factor |-> factor]

\* perform_rule whose Deteriorate multiplies by factor instead of 1 + factor
perform_rule_scales_by_factor(substances, rule) ==
    IF rule.kind = "Deteriorate"
    THEN [substances EXCEPT ![rule.substance_idx] =
              RMax0(RMul(rule.factor, substances[rule.substance_idx]))]
    ELSE LET transport_amount ==
                 RMul(rule.factor, substances[rule.source_substance_idx])
             s1 == [substances EXCEPT ![rule.source_substance_idx] =
                        RMax0(RSub(substances[rule.source_substance_idx],
                                   transport_amount))]
         IN  [s1 EXCEPT ![rule.target_substance_idx] =
                 RMax0(RAdd(s1[rule.target_substance_idx], transport_amount))]

\* perform_rule whose Transfer computes both new values from the old ones
perform_rule_from_old_values(substances, rule) ==
    IF rule.kind = "Deteriorate"
    THEN [substances EXCEPT ![rule.substance_idx] =
              RMax0(RMul(RAdd(RInt(1), rule.factor), substances[rule.substance_idx]))]
    ELSE LET transport_amount ==
                 RMul(rule.factor, substances[rule.source_substance_idx])
             s1 == [substances EXCEPT ![rule.source_substance_idx] =
                        RMax0(RSub(substances[rule.source_substance_idx],
                                   transport_amount))]
         IN  [s1 EXCEPT ![rule.target_substance_idx] =
                 RMax0(RAdd(substances[rule.target_substance_idx], transport_amount))]

\* Simulation::perform_rule; the assignments of Transfer happen in order, so
\* the target is read after the source was written
perform_rule(substances, rule) ==
    IF rule.kind = "Deteriorate"
    THEN [substances EXCEPT ![rule.substance_idx] =
              RMax0(RMul(RAdd(RInt(1), rule.factor), substances[rule.substance_idx]))]
    ELSE LET transport_amount ==
                 RMul(rule.factor, substances[rule.source_substance_idx])
             s1 == [substances EXCEPT ![rule.source_substance_idx] =
                        RMax0(RSub(substances[rule.source_substance_idx],
                                   transport_amount))]
         IN  [s1 EXCEPT ![rule.target_substance_idx] =
                 RMax0(RAdd(s1[rule.target_substance_idx], transport_amount))]

RECURSIVE ApplyRules(_, _)
\* `for rule in rules { perform_rule(substances, rule) }`
ApplyRules(substances, rules) ==
    IF rules = <<>> THEN substances
    ELSE ApplyRules(perform_rule(substances, Head(rules)), Tail(rules))

\* perform_rules with its two passes exchanged: local rules first
perform_rules_local_first(surf, global_rules) ==
    LET afterLocal ==
            [i \in DOMAIN surf |->
                [surf[i] EXCEPT !.substances = ApplyRules(@, surf[i].rules)]]
    IN  [i \in DOMAIN surf |->
            [afterLocal[i] EXCEPT !.substances = ApplyRules(@, global_rules)]]

\* Simulation::perform_rules: the global rules on every surfel, then each
\* surfel's own rules on that surfel
perform_rules(surf, global_rules) ==
    LET afterGlobal ==
            [i \in DOMAIN surf |->
                [surf[i] EXCEPT !.substances = ApplyRules(@, global_rules)]]
    IN  [i \in DOMAIN surf |->
            [afterGlobal[i] EXCEPT !.substances = ApplyRules(@, afterGlobal[i].rules)]]

-----------------------------------------------------------------------------
(* Motion probabilities (Simulation::deteriorate, select_motion_type).     *)
(* Probabilities and deltas count units of 1/PScale; 1.0 is PScale.        *)

PScale == 4

Max0(x) == IF x < 0 THEN 0 ELSE x

\* deteriorate that leaves p_straight as it is
deteriorate_keeps_straight(ton, surfel) ==
    LET ps == ton.p_straight
        pp == Max0(ton.p_parabolic - surfel.delta_parabolic)
        pf == Max0(ton.p_flow + pp - surfel.delta_flow)
        excess == ps + pp + pf - PScale
    IN  [ton EXCEPT !.p_straight = ps,
                    !.p_parabolic = pp,
                    !.p_flow = IF excess > 0 THEN pf - excess ELSE pf]

\* deteriorate without the reduction of p_flow by the excess over 1
deteriorate_no_excess_fix(ton, surfel) ==
    LET ps == Max0(ton.p_straight - surfel.delta_straight)
        pp == Max0(ton.p_parabolic - surfel.delta_parabolic)
        pf == Max0(ton.p_flow + pp - surfel.delta_flow)
    IN  [ton EXCEPT !.p_straight = ps, !.p_parabolic = pp, !.p_flow = pf]

\* deteriorate whose p_flow update lost its .max(0.0)
deteriorate_flow_unclamped(ton, surfel) ==
    LET ps == Max0(ton.p_straight - surfel.delta_straight)
        pp == Max0(ton.p_parabolic - surfel.delta_parabolic)
        pf == ton.p_flow + pp - surfel.delta_flow
    IN  [ton EXCEPT !.p_straight = ps,
                    !.p_parabolic = pp,
                    !.p_flow = IF ps + pp + pf > PScale
                               THEN pf - (ps + pp + pf - PScale)
                               ELSE pf]

\* Simulation::deteriorate
deteriorate(ton, surfel) ==
    LET ps == Max0(ton.p_straight - surfel.delta_straight)
        pp == Max0(ton.p_parabolic - surfel.delta_parabolic)
        pf == Max0(ton.p_flow + pp - surfel.delta_flow)
    IN  [ton EXCEPT !.p_straight = ps,
                    !.p_parabolic = pp,
                    !.p_flow = IF ps + pp + pf > PScale
                               THEN pf - (ps + pp + pf - PScale)
                               ELSE pf]

\* select_motion_type whose comparisons admit equality
select_motion_type_inclusive(ton, random) ==
    IF random <= ton.p_straight THEN "Straight"
    ELSE IF random <= ton.p_straight + ton.p_parabolic THEN "Parabolic"
    ELSE IF random <= ton.p_straight + ton.p_parabolic + ton.p_flow THEN "Flow"
    ELSE "Settled"

\* Simulation::select_motion_type with the drawn number random in [0, 1)
select_motion_type(ton, random) ==
    IF random < ton.p_straight THEN "Straight"
    ELSE IF random < ton.p_straight + ton.p_parabolic THEN "Parabolic"
    ELSE IF random < ton.p_straight + ton.p_parabolic + ton.p_flow THEN "Flow"
    ELSE "Settled"

-----------------------------------------------------------------------------
(* Records of the data model (ton.rs, surfel_data.rs).                     *)

\* struct Ton
Ton(p_straight, p_parabolic, p_flow, substances, pickup_rates) ==
    [p_straight |-> p_straight, p_parabolic |-> p_parabolic, p_flow |-> p_flow,
     substances |-> substances, pickup_rates |-> pickup_rates]

\* struct SurfelData
SurfelData(entity_idx, delta_straight, delta_parabolic, delta_flow, substances, deposition_rates, rules) ==
    [entity_idx |-> entity_idx, delta_straight |-> delta_straight,
     delta_parabolic |-> delta_parabolic, delta_flow |-> delta_flow,
     substances |-> substances, deposition_rates |-> deposition_rates,
     rules |-> rules]

\* struct TonSource as TonSourceBuilder::build leaves it
TonSource(p_straight, p_parabolic, p_flow, substances, pickup_rates, emission_count) ==
    [p_straight |-> p_straight, p_parabolic |-> p_parabolic, p_flow |-> p_flow,
     substances |-> substances, pickup_rates |-> pickup_rates,
     emission_count |-> emission_count]

\* emit_one that fills p_flow from the source's p_parabolic
emit_one_flow_typo(source) ==
    Ton(source.p_straight, source.p_parabolic, source.p_parabolic,
        source.substances, source.pickup_rates)

\* TonSource::emit_one: the ton is a copy of the source's prototype values
emit_one(source) ==
    Ton(source.p_straight, source.p_parabolic, source.p_flow,
        source.substances, source.pickup_rates)

\* one entry of the `hits` vector: the ton, the intersection point (named by
\* the index of the surfel nearest to it) and the side the hit triangle faces
Hit(ton, point, side) == [ton |-> ton, point |-> point, side |-> side]

-----------------------------------------------------------------------------
(* Substance exchange in isolation: one ton, a surface of two surfels and  *)
(* a transport configuration.  Each step is one call of Transport::perform *)
(* for a contact of the ton (any motion type, any neighborhood) or one     *)
(* pass of Simulation::perform_rules.                                      *)

MaxOps == 2

Half == R(1, 2)

TonSubstanceChoices == { <<RInt(1), RZero>>, <<Half, RInt(1)>> }

PickupChoices == { <<RZero, RInt(1)>>, <<Half, RInt(-1)>>, <<RInt(-2), RInt(2)>> }

\* a surfel that carries one substance more than the tons do
LongSurfel ==
    SurfelData(0, 0, 0, 0, <<RInt(1), Half, RInt(1)>>,
               <<RInt(1), RInt(1), RInt(1)>>, <<>>)

\* a surfel with fewer deposition rates than substances
ShortRateSurfel ==
    SurfelData(0, 0, 0, 0, <<RInt(1), Half>>, <<Half>>, <<>>)

SurfelChoices ==
    { SurfelData(0, 0, 0, 0, s, d, <<>>) :
        s \in { <<RZero, RZero>>, <<RInt(1), Half>> },
        d \in { <<RInt(1), RInt(1)>>, <<Half, RZero>>, <<RInt(2), RInt(-1)>> } }
    \cup { LongSurfel, ShortRateSurfel }

LocalRuleSurfelChoices ==
    { SurfelData(0, 0, 0, 0, <<Half, RInt(1)>>, d, <<Deteriorate(1, R(-1, 2))>>) :
        d \in { <<RInt(1), RInt(1)>>, <<RInt(1), Half>> } }
    \cup { SurfelData(0, 0, 0, 0, <<Half, RInt(1)>>, <<RInt(1), RInt(1)>>,
                      <<Transfer(1, 2, Half), Deteriorate(2, RInt(1))>>) }

GlobalRules == << Transfer(1, 2, R(1, 10)), Deteriorate(2, R(-3, 2)) >>

Injective(s) == \A i, j \in DOMAIN s : i # j => s[i] # s[j]

\* the index lists a neighborhood query can give: the surfels within a
\* sphere, each once, in any order, and never empty when it is used
Neighborhoods(surf) ==
    { s \in UNION { [1..n -> DOMAIN surf] : n \in 1..Len(surf) } : Injective(s) }

TMotions == {"Straight", "Settled"}

TInit ==
    /\ config \in Configs
    /\ \E s \in TonSubstanceChoices, r \in PickupChoices :
           hits = << Hit(Ton(0, 0, 0, s, r), 1, 1) >>
    /\ \E a \in SurfelChoices, b \in LocalRuleSurfelChoices : surface = <<a, b>>
    /\ surfel_rules = GlobalRules
    /\ sources = <<>>
    /\ closed = FALSE
    /\ pc = "transport"
    /\ src_k = 1
    /\ emissions = <<>>
    /\ interaction_info = <<>>
    /\ done = {}
    /\ results = <<>>
    /\ ex_i = 1
    /\ ex_j = 1
    /\ layer = 0
    /\ panicked = FALSE
    /\ trace = <<>>
    /\ hist = <<>>

\* what hist records of one operation: its kind and inputs and the state
\* it started from
Entry(op, motion, idxs) ==
    [op |-> op, motion |-> motion, idxs |-> idxs,
     ton |-> hits[1].ton, surface |-> surface]

\* Transport::perform for one contact of the ton, whose selected motion is
\* one of motions
TransportPerformOf(motions) ==
    /\ pc = "transport"
    /\ ~panicked
    /\ Len(hist) < MaxOps
    /\ \E m \in motions, idxs \in Neighborhoods(surface) :
         LET r == perform(config, hits[1].ton, surface, m, idxs)
         IN  /\ hits' = [hits EXCEPT ![1].ton = r.ton]
             /\ surface' = r.surface
             /\ panicked' = r.panic
             /\ hist' = Append(hist, Entry("perform", m, idxs))
    /\ UNCHANGED <<sources, surfel_rules, config, closed, ctl>>

\* Simulation::perform_rules
TransportRules ==
    /\ pc = "transport"
    /\ ~panicked
    /\ Len(hist) < MaxOps
    /\ surface' = perform_rules(surface, surfel_rules)
    /\ hist' = Append(hist, Entry("rules", "none", <<>>))
    /\ UNCHANGED <<sources, surfel_rules, config, closed, ctl, hits, panicked>>

TransportPerform == TransportPerformOf(TMotions)

TNext == TransportPerform \/ TransportRules

SpecTransport == TInit /\ [][TNext]_vars

\* a single contact of the ton, with any of the four motion types
ContactPerform == hist = <<>> /\ TransportPerformOf(MotionType)

SpecContact == TInit /\ [][ContactPerform]_vars

-----------------------------------------------------------------------------
(* Properties of the substance exchange, stated over SpecTransport.        *)

Channels == 1..2

TheTon == hits[1].ton

Last == hist[Len(hist)]

\* the sum of channel i over the surfels idxs of surf
SurfelSum(surf, idxs, i) ==
    SumSeq([k \in 1..Len(idxs) |-> surf[idxs[k]].substances[i]])

\* particle amount plus the surfels' amounts in channel i
ChannelTotal(ton, surf, idxs, i) ==
    RAdd(ton.substances[i], SurfelSum(surf, idxs, i))

AllIdxs == [k \in 1..Len(surface) |-> k]

InUnit(r)     == RLeq(RZero, r) /\ RLeq(r, RInt(1))
InPlusMinus(r) == RLeq(RInt(-1), r) /\ RLeq(r, RInt(1))

\* the last operation was the exchange of a bounce (resp. settle) contact
LastIsBounce ==
    hist # <<>> /\ ~panicked /\ Last.op = "perform" /\ Last.motion # "Settled"
LastIsSettle ==
    hist # <<>> /\ ~panicked /\ Last.op = "perform" /\ Last.motion = "Settled"

\* C1 (as claimed): whatever transport rules and surfel rules were applied,
\* every surfel's concentration in every channel is >= 0.
C1_SurfelsNonNegative ==
    \A s \in DOMAIN surface : \A i \in DOMAIN surface[s].substances :
        RGeq(surface[s].substances[i], RZero)

\* C7 (as claimed): an Absorb exchange of one hit over its neighborhood
\* keeps particle + neighborhood total of every channel whose pickup rate
\* is in [0, 1] or is negative.
C7_AbsorbConservesAnyNegative ==
    (config = "Classic" /\ LastIsBounce) =>
        \A i \in Channels :
            (InUnit(Last.ton.pickup_rates[i]) \/ RLt(Last.ton.pickup_rates[i], RZero))
            => ChannelTotal(TheTon, surface, Last.idxs, i)
                 = ChannelTotal(Last.ton, Last.surface, Last.idxs, i)

\* C7 (amended): an Absorb exchange of one hit over its neighborhood keeps
\* particle + neighborhood total of every channel whose pickup rate is in
\* [-1, 1].
C7_AbsorbConserves ==
    (config = "Classic" /\ LastIsBounce) =>
        \A i \in Channels :
            InPlusMinus(Last.ton.pickup_rates[i])
            => ChannelTotal(TheTon, surface, Last.idxs, i)
                 = ChannelTotal(Last.ton, Last.surface, Last.idxs, i)

\* an Absorb exchange over two surfels moved substance from the particle to
\* the surfels under a negative pickup rate, and from the surfels to the
\* particle under a positive one
C7_Witness ==
    /\ config = "Classic" /\ LastIsBounce /\ Len(Last.idxs) = 2
    /\ \E i \in Channels :
          /\ RLt(Last.ton.pickup_rates[i], RZero)
          /\ InPlusMinus(Last.ton.pickup_rates[i])
          /\ RLt(TheTon.substances[i], Last.ton.substances[i])
    /\ \E i \in Channels :
          /\ InUnit(Last.ton.pickup_rates[i])
          /\ RGt(TheTon.substances[i], Last.ton.substances[i])

\* C8 (as claimed): a Classic settle exchange (Deposit) leaves the particle
\* as it was and each neighborhood surfel at
\* max(0, S[i] + w * deposition_rates[i] * T[i]).
C8_DepositLeavesTon ==
    (config = "Classic" /\ LastIsSettle) =>
        /\ TheTon.substances = Last.ton.substances
        /\ \A k \in 1..Len(Last.idxs) :
             LET S == Last.surface[Last.idxs[k]]
             IN  \A i \in DOMAIN S.deposition_rates :
                 surface[Last.idxs[k]].substances[i]
                     = RMax0(RAdd(S.substances[i],
                                  RMul(Recip(Len(Last.idxs)),
                                       RMul(S.deposition_rates[i],
                                            Last.ton.substances[i]))))

\* the rates of channel i of the ton and of every surfel are in the range
\* in which neither Absorb nor Deposit is cut off by a clamp
RatesInRange(i) ==
    /\ InPlusMinus(TheTon.pickup_rates[i])
    /\ \A s \in DOMAIN surface :
          /\ i \in DOMAIN surface[s].deposition_rates
          /\ InUnit(surface[s].deposition_rates[i])

BounceThenSettle ==
    /\ Len(hist) = 2
    /\ ~panicked
    /\ hist[1].op = "perform" /\ hist[1].motion # "Settled"
    /\ hist[2].op = "perform" /\ hist[2].motion = "Settled"

\* C9 (as claimed): under Consistent, after one bounce exchange and then one
\* settle exchange the particle + surfel total of every channel is the
\* initial total.
C9_ConsistentConservesAnyRates ==
    (config = "Consistent" /\ BounceThenSettle) =>
        \A i \in Channels :
            ChannelTotal(TheTon, surface, AllIdxs, i)
              = ChannelTotal(hist[1].ton, hist[1].surface, AllIdxs, i)

\* C9 (amended): under Consistent, after one bounce exchange and then one
\* settle exchange the particle + surfel total is the initial total in
\* every channel whose pickup rate is in [-1, 1] and whose deposition rates
\* are in [0, 1].
C9_ConsistentConserves ==
    (config = "Consistent" /\ BounceThenSettle) =>
        \A i \in Channels :
            RatesInRange(i)
            => ChannelTotal(TheTon, surface, AllIdxs, i)
                 = ChannelTotal(hist[1].ton, hist[1].surface, AllIdxs, i)

\* a Consistent bounce and settle with rates in range, both of which moved
\* substance in such a channel
C9_Witness ==
    /\ config = "Consistent" /\ BounceThenSettle
    /\ \E i \in Channels :
          /\ RatesInRange(i)
          /\ hist[2].ton.substances[i] # hist[1].ton.substances[i]
          /\ TheTon.substances[i] # hist[2].ton.substances[i]

\* C10: a DepositAll settle over N adds, in every channel, exactly the
\* particle's amount to the neighborhood's sum and leaves the particle alone.
C10_DepositAllAddsTon ==
    (config = "Conserving" /\ LastIsSettle) =>
        /\ TheTon = Last.ton
        /\ \A i \in Channels :
             SurfelSum(surface, Last.idxs, i)
               = RAdd(SurfelSum(Last.surface, Last.idxs, i), Last.ton.substances[i])

\* a DepositAll settle over two surfels of a particle that carries substance
C10_Witness ==
    /\ config = "Conserving" /\ LastIsSettle /\ Len(Last.idxs) = 2
    /\ \E i \in Channels : RGt(Last.ton.substances[i], RZero)

\* the last operation was an exchange whose neighborhood holds a surfel with
\* a substance vector of another length than the ton's
Mismatch(k) ==
    Len(Last.surface[Last.idxs[k]].substances) # Len(Last.ton.substances)

LastIsMismatched ==
    /\ hist # <<>> /\ Last.op = "perform"
    /\ \E k \in DOMAIN Last.idxs : Mismatch(k)

\* the first position of the neighborhood at which the lengths differ
FirstMismatch ==
    CHOOSE k \in DOMAIN Last.idxs :
        Mismatch(k) /\ \A j \in 1..(k - 1) : ~Mismatch(j)

\* C11 (as claimed): under every transport rule an exchange that meets a
\* surfel whose substance vector differs in length from the ton's aborts,
\* and that surfel (and, when it is the first of the neighborhood, the ton)
\* still holds the values it had before the exchange.
C11_MismatchAborts ==
    LastIsMismatched =>
        /\ panicked
        /\ surface[Last.idxs[FirstMismatch]] = Last.surface[Last.idxs[FirstMismatch]]
        /\ FirstMismatch = 1 => TheTon = Last.ton

\* the lengths of the vectors of a ton and of a surface
Lengths(ton, surf) ==
    << Len(ton.substances), Len(ton.pickup_rates),
       [s \in DOMAIN surf |->
           <<Len(surf[s].substances), Len(surf[s].deposition_rates)>>] >>

\* C12 (as claimed): the particle has as many substances as pickup rates,
\* no exchange and no rule pass changes the length of any vector, and
\* whenever an exchange has proceeded, every surfel of its neighborhood has
\* as many substances as deposition rates and as the particle has substances.
C12_LengthsConsistent ==
    /\ Len(TheTon.substances) = Len(TheTon.pickup_rates)
    /\ hist # <<>> => Lengths(TheTon, surface) = Lengths(Last.ton, Last.surface)
    /\ (hist # <<>> /\ Last.op = "perform" /\ ~panicked) =>
          \A k \in DOMAIN Last.idxs :
              LET S == surface[Last.idxs[k]]
              IN  /\ Len(S.substances) = Len(S.deposition_rates)
                  /\ Len(S.substances) = Len(TheTon.substances)

\* the rule the claim names for a contact: under Classic, Deposit on settle
\* and Absorb on bounce; else the settle rule of the configuration if and
\* only if the motion is Settled, and its bounce rule otherwise
ExpectedRule(c, motion) ==
    IF c = "Classic"
    THEN (IF motion = "Settled" THEN "Deposit" ELSE "Absorb")
    ELSE (IF motion = "Settled" THEN SettleRule(c) ELSE BounceRule(c))

RECURSIVE RuleOverN(_, _, _, _, _, _)
\* rule applied once, with weight w, to the surfel at each of the positions
\* k, k + 1, .. of idxs, in that order
RuleOverN(rule, ton, surf, idxs, k, w) ==
    IF k > Len(idxs) THEN [ton |-> ton, surface |-> surf]
    ELSE LET r == transport(rule, ton, surf[idxs[k]], w)
         IN  RuleOverN(rule, r.ton, [surf EXCEPT ![idxs[k]] = r.surfel],
                       idxs, k + 1, w)

\* C14: a contact that completed left the ton and the surface as one
\* application of the expected rule to every index of the neighborhood N,
\* once each, with weight 1/|N|, leaves them; surfels outside N are as before.
C14_OneRulePerContact ==
    (hist # <<>> /\ Last.op = "perform" /\ ~panicked) =>
        LET exp == RuleOverN(ExpectedRule(config, Last.motion), Last.ton,
                             Last.surface, Last.idxs, 1, <<1, Len(Last.idxs)>>)
        IN  /\ TheTon = exp.ton
            /\ surface = exp.surface
            /\ \A s \in DOMAIN surface :
                  (\A k \in DOMAIN Last.idxs : Last.idxs[k] # s)
                  => surface[s] = Last.surface[s]

\* a Flow contact under Classic over two surfels that changed the ton and
\* both surfels
C14_Witness ==
    /\ hist # <<>> /\ Last.op = "perform" /\ ~panicked
    /\ config = "Classic" /\ Last.motion = "Flow" /\ Len(Last.idxs) = 2
    /\ TheTon # Last.ton
    /\ \A s \in DOMAIN surface : surface[s] # Last.surface[s]

RECURSIVE InOrder(_, _, _)
\* the rules at the positions k, k + 1, .. of rules applied to substances,
\* one after the other
InOrder(substances, rules, k) ==
    IF k > Len(rules) THEN substances
    ELSE InOrder(perform_rule(substances, rules[k]), rules, k + 1)

Reverse(s) == [k \in 1..Len(s) |-> s[Len(s) + 1 - k]]

\* C18: a rule pass leaves every surfel with the substances that the global
\* rules in declaration order, followed by that surfel's own local rules in
\* their order, make of its substances before the pass (so no rule of
\* another surfel takes part), and with its other fields as they were.
C18_GlobalThenLocal ==
    (hist # <<>> /\ Last.op = "rules") =>
        \A s \in DOMAIN surface :
            surface[s] =
                [Last.surface[s] EXCEPT
                    !.substances = InOrder(@, surfel_rules \o Last.surface[s].rules, 1)]

\* a rule pass over a surfel with two local rules for which the order of
\* the passes, of the global rules and of the local rules each matters
C18_Witness ==
    /\ hist # <<>> /\ Last.op = "rules"
    /\ \E s \in DOMAIN surface :
          LET before == Last.surface[s]
              after  == surface[s].substances
          IN  /\ Len(before.rules) = 2
              /\ after # InOrder(before.substances, before.rules \o surfel_rules, 1)
              /\ after # InOrder(before.substances,
                                 Reverse(surfel_rules) \o before.rules, 1)
              /\ after # InOrder(before.substances,
                                 surfel_rules \o Reverse(before.rules), 1)

-----------------------------------------------------------------------------
(* Surfel rules in isolation: a surface of one surfel with three substance *)
(* channels and one rule, which is either the only global rule or the      *)
(* surfel's only local rule.  Each step is one pass of perform_rules.      *)

RuleSubstanceChoices ==
    { <<RZero, RZero, RInt(1)>>, <<RInt(1), Half, RInt(1)>>,
      <<Half, RInt(2), RZero>>, <<RInt(-1), RInt(1), RInt(1)>> }

RuleFactors == { RZero, Half, RInt(1), R(3, 2), R(-1, 2) }

RuleChoices ==
    { Deteriorate(i, f) : i \in 1..2, f \in RuleFactors }
    \cup { Transfer(i, j, f) : i \in 1..2, j \in 1..2, f \in RuleFactors }

RInit ==
    /\ \E s \in RuleSubstanceChoices, rule \in RuleChoices, global \in BOOLEAN :
         /\ surface = << SurfelData(0, 0, 0, 0, s, <<>>,
                                    IF global THEN <<>> ELSE <<rule>>) >>
         /\ surfel_rules = IF global THEN <<rule>> ELSE <<>>
    /\ hits = << Hit(Ton(0, 0, 0, <<>>, <<>>), 1, 1) >>
    /\ config = "Classic"
    /\ sources = <<>>
    /\ closed = FALSE
    /\ pc = "transport"
    /\ src_k = 1
    /\ emissions = <<>>
    /\ interaction_info = <<>>
    /\ done = {}
    /\ results = <<>>
    /\ ex_i = 1
    /\ ex_j = 1
    /\ layer = 0
    /\ panicked = FALSE
    /\ trace = <<>>
    /\ hist = <<>>

RNext == TransportRules

SpecRule == RInit /\ [][RNext]_vars

\* the one rule of the surface and the substances it was constructed with
TheRule == (surfel_rules \o surface[1].rules)[1]

NonNegative(substances) ==
    \A i \in DOMAIN substances : RGeq(substances[i], RZero)

\* C22: a rule with factor 0, Deteriorate or Transfer with any indices,
\* applied to non-negative substances leaves the substance vector as it
\* was: after one pass and after any further pass the surfel holds the
\* substances it held before the first.
C22_ZeroFactorIdentity ==
    (hist # <<>> /\ TheRule.factor = RZero
       /\ NonNegative(hist[1].surface[1].substances)) =>
        /\ surface[1].substances = hist[1].surface[1].substances
        /\ surface[1].substances = Last.surface[1].substances

\* two passes of a Transfer with factor 0 from a channel to itself over a
\* surfel that holds substance in that channel
C22_Witness ==
    /\ Len(hist) >= 2
    /\ TheRule.kind = "Transfer" /\ TheRule.factor = RZero
    /\ TheRule.source_substance_idx = TheRule.target_substance_idx
    /\ NonNegative(hist[1].surface[1].substances)
    /\ RGt(surface[1].substances[TheRule.source_substance_idx], RZero)

\* C29: a pass of a Transfer rule with 0 <= factor <= 1 over non-negative
\* substances takes exactly factor * s[source] from the source channel and
\* adds it to the target channel, so that their sum is kept, leaves the
\* value alone when source and target are the same channel, and leaves
\* every other channel alone.
C29_TransferConserves ==
    (hist # <<>> /\ TheRule.kind = "Transfer" /\ InUnit(TheRule.factor)
       /\ NonNegative(Last.surface[1].substances)) =>
        LET old == Last.surface[1].substances
            new == surface[1].substances
            src == TheRule.source_substance_idx
            tgt == TheRule.target_substance_idx
            moved == RMul(TheRule.factor, old[src])
        IN  /\ src # tgt =>
                  /\ new[src] = RSub(old[src], moved)
                  /\ new[tgt] = RAdd(old[tgt], moved)
                  /\ RAdd(new[src], new[tgt]) = RAdd(old[src], old[tgt])
            /\ src = tgt => new[src] = old[src]
            /\ \A i \in DOMAIN old : (i # src /\ i # tgt) => new[i] = old[i]
            /\ DOMAIN new = DOMAIN old

\* a second pass of a Transfer with factor 1/2 between two channels moved
\* substance, and so did the first
C29_Witness ==
    /\ Len(hist) = 2
    /\ TheRule.kind = "Transfer" /\ TheRule.factor = Half
    /\ TheRule.source_substance_idx # TheRule.target_substance_idx
    /\ NonNegative(hist[1].surface[1].substances)
    /\ surface[1].substances # Last.surface[1].substances
    /\ Last.surface[1].substances # hist[1].surface[1].substances

-----------------------------------------------------------------------------
(* Deterioration in isolation: a source built with any three probability   *)
(* values (the builder's setters store what they are given), one ton       *)
(* emitted from it, and surfels with deltas >= 0.  Each step is one call   *)
(* of Simulation::deteriorate with some surfel; hist holds the last step.  *)

\* values a probability setter may be given, in units of 1/PScale
ProbInputs == -1 .. PScale + 1

DeltaSurfels ==
    << SurfelData(0, 0, 0, 0, <<>>, <<>>, <<>>),
       SurfelData(0, 1, 0, 2, <<>>, <<>>, <<>>),
       SurfelData(0, 0, 1, 0, <<>>, <<>>, <<>>),
       SurfelData(0, 2, 3, 1, <<>>, <<>>, <<>>) >>

DInit ==
    /\ \E ps \in ProbInputs, pp \in ProbInputs, pf \in ProbInputs :
           sources = << TonSource(ps, pp, pf, <<>>, <<>>, 1) >>
    /\ hits = << Hit(emit_one(sources[1]), 1, 1) >>
    /\ surface = DeltaSurfels
    /\ surfel_rules = <<>>
    /\ config = "Classic"
    /\ closed = FALSE
    /\ pc = "deteriorate_only"
    /\ src_k = 1
    /\ emissions = <<>>
    /\ interaction_info = <<>>
    /\ done = {}
    /\ results = <<>>
    /\ ex_i = 1
    /\ ex_j = 1
    /\ layer = 0
    /\ panicked = FALSE
    /\ trace = <<>>
    /\ hist = <<>>

\* Simulation::deteriorate(ton, surface.samples[idx].data())
DeteriorateStep ==
    /\ pc = "deteriorate_only"
    /\ \E idx \in DOMAIN surface :
         /\ hits' = [hits EXCEPT ![1].ton = deteriorate(@, surface[idx])]
         /\ hist' = << Entry("deteriorate", "none", <<idx>>) >>
    /\ UNCHANGED <<sources, surface, surfel_rules, config, closed, ctl, panicked>>

DNext == DeteriorateStep

SpecDeteriorate == DInit /\ [][DNext]_vars

ProbSum(ton) == ton.p_straight + ton.p_parabolic + ton.p_flow

InProbRange(p) == 0 <= p /\ p <= PScale

Deteriorated == pc = "deteriorate_only" /\ hist # <<>>

\* C4: right after a deterioration step, whatever the probabilities were
\* before it, p_straight + p_parabolic + p_flow <= 1.
C4_SumAtMostOne == Deteriorated => ProbSum(TheTon) <= PScale

\* a step whose three clamped updates summed to more than 1, so that the
\* reduction of p_flow acted, on a ton whose sum was already above 1
C4_Witness ==
    /\ Deteriorated
    /\ ProbSum(Last.ton) > PScale
    /\ ProbSum(deteriorate_no_excess_fix(Last.ton, surface[Last.idxs[1]])) > PScale

SourceProbsInRange ==
    /\ InProbRange(sources[1].p_straight)
    /\ InProbRange(sources[1].p_parabolic)
    /\ InProbRange(sources[1].p_flow)

TonProbsInRange ==
    /\ InProbRange(TheTon.p_straight)
    /\ InProbRange(TheTon.p_parabolic)
    /\ InProbRange(TheTon.p_flow)

\* C5 (as claimed): a ton of a source whose three probabilities are each in
\* [0, 1] keeps each of its probabilities in [0, 1] through any number of
\* deterioration steps.
C5_ProbsStayInRangeAnySource ==
    (pc = "deteriorate_only" /\ SourceProbsInRange) => TonProbsInRange

\* C5 (amended): a ton of a source whose three probabilities are each in
\* [0, 1] and whose p_straight + p_parabolic is at most 1 keeps each of its
\* probabilities in [0, 1] through any number of deterioration steps.
C5_ProbsStayInRange ==
    (/\ pc = "deteriorate_only"
     /\ SourceProbsInRange
     /\ sources[1].p_straight + sources[1].p_parabolic <= PScale)
    => TonProbsInRange

\* a ton of such a source after a step in which the excess reduction acted
\* and after which p_flow is positive
C5_Witness ==
    /\ Deteriorated
    /\ SourceProbsInRange
    /\ sources[1].p_straight + sources[1].p_parabolic <= PScale
    /\ ProbSum(deteriorate_no_excess_fix(Last.ton, surface[Last.idxs[1]])) > PScale
    /\ TheTon.p_flow > 0

-----------------------------------------------------------------------------
(* Motion selection in isolation: a source built with any three            *)
(* probability values, one ton emitted from it, and one call of            *)
(* select_motion_type for its first contact; hist holds the number drawn   *)
(* and the ton the call was made with.                                     *)

\* TonSourceBuilder::new().emission_count(1).build(): every probability is
\* the builder's default 0.0
DefaultSource == TonSource(0, 0, 0, <<>>, <<>>, 1)

SelInit ==
    /\ \E ps \in ProbInputs, pp \in ProbInputs, pf \in ProbInputs :
           sources = << TonSource(ps, pp, pf, <<>>, <<>>, 1) >>
    /\ hits = << Hit(emit_one(sources[1]), 1, 1) >>
    /\ surface = DeltaSurfels
    /\ surfel_rules = <<>>
    /\ config = "Classic"
    /\ closed = FALSE
    /\ pc = "select_only"
    /\ src_k = 1
    /\ emissions = <<>>
    /\ interaction_info = <<>>
    /\ done = {}
    /\ results = <<>>
    /\ ex_i = 1
    /\ ex_j = 1
    /\ layer = 0
    /\ panicked = FALSE
    /\ trace = <<>>
    /\ hist = <<>>

\* `let random : f32 = rng.gen();` and the selection made with it, for the
\* first contact of the ton
SelectStep ==
    /\ pc = "select_only"
    /\ hist = <<>>
    /\ \E random \in 0..(PScale - 1) :
         /\ interaction_info' = << << select_motion_type(hits[1].ton, random), <<1>> >> >>
         /\ hist' = << [op |-> "select", random |-> random, ton |-> hits[1].ton] >>
    /\ UNCHANGED <<sources, surface, surfel_rules, config, closed, pc, src_k,
                   emissions, hits, done, results, ex_i, ex_j, layer, panicked,
                   trace>>

SelNext == SelectStep

SpecSelect == SelInit /\ [][SelNext]_vars

\* the motion type the selection step chose
Chosen == interaction_info[1][1]

\* C21: the selection made with the draw r for a particle is Straight if
\* r < p_straight, else Parabolic if r < p_straight + p_parabolic, else Flow
\* if r < p_straight + p_parabolic + p_flow, else Settled; a particle whose
\* three probabilities are all 0 selects Settled whatever r is.
C21_SelectionThresholds ==
    (pc = "select_only" /\ hist # <<>>) =>
        LET r == Last.random
            T == Last.ton
            a == T.p_straight
            b == T.p_straight + T.p_parabolic
            c == T.p_straight + T.p_parabolic + T.p_flow
        IN  /\ (Chosen = "Straight") <=> (r < a)
            /\ (Chosen = "Parabolic") <=> (r >= a /\ r < b)
            /\ (Chosen = "Flow") <=> (r >= a /\ r >= b /\ r < c)
            /\ (Chosen = "Settled") <=> (r >= a /\ r >= b /\ r >= c)
            /\ (T.p_straight = 0 /\ T.p_parabolic = 0 /\ T.p_flow = 0)
                  => Chosen = "Settled"

\* a ton of the default source selected Settled on the draw 0
C21_Witness ==
    /\ pc = "select_only" /\ hist # <<>>
    /\ sources[1] = DefaultSource
    /\ Last.random = 0
    /\ Chosen = "Settled"

-----------------------------------------------------------------------------
(* The tracer (tracer.rs).  Positions and directions are vectors <<t, u>>  *)
(* of rationals in the plane spanned by the tangential direction and up.   *)
(* The spatial index (spatial::Octree) is a collaborator outside the       *)
(* repository: a scene is given by what the index answers.  An Option<T>   *)
(* is a sequence of at most one T.                                         *)

VAdd(a, b)   == <<RAdd(a[1], b[1]), RAdd(a[2], b[2])>>
VSub(a, b)   == <<RSub(a[1], b[1]), RSub(a[2], b[2])>>
VScale(k, a) == <<RMul(k, a[1]), RMul(k, a[2])>>

SELF_INTERSECTION_EPSILON == R(1, 10000)

FLOW_ADHESIVENESS == R(11, 10)

\* Tracer::new: gravity_direction
gravity_direction == <<RZero, RInt(-1)>>

\* struct Hit of the tracer, as Option<Hit>::Some; the incoming direction
\* is named by the probe that found the hit
TracerHit(intersection_point, incoming_direction) ==
    << [intersection_point |-> intersection_point,
        incoming_direction |-> incoming_direction] >>

\* a scene whose index gives the three probes of a flow call these answers
TableScene(upward, tangential, gravity) ==
    [kind |-> "table", upward |-> upward, tangential |-> tangential,
     gravity |-> gravity]

\* the quad of test_flow_on_flat: the points <<t, 0>> with -half <= t <= half
FlatScene(half) == [kind |-> "flat", half |-> half]

\* where the line from + s * v meets the flat scene, as the parameter s and
\* the point, if it does at some s >= 0
FlatCrossing(scene, from, v) ==
    IF v[2] = RZero THEN <<>>
    ELSE LET s == RDiv(RNeg(from[2]), v[2])
             t == RAdd(from[1], RMul(s, v[1]))
         IN  IF RGeq(s, RZero) /\ RLeq(RNeg(scene.half), t) /\ RLeq(t, scene.half)
             THEN << [s |-> s, point |-> <<t, RZero>>] >>
             ELSE <<>>

\* Octree::line_segment_intersection_target_and_parameter for the segment
\* of the points from + s * v with 0 <= s <= max, where of max only
\* sLo <= max <= sHi is known: the answers the index can give
line_segment_intersection(scene, probe, from, v, sLo, sHi) ==
    IF scene.kind = "table" THEN { scene[probe] }
    ELSE LET c == FlatCrossing(scene, from, v)
         IN  IF c = <<>> THEN { <<>> }
             ELSE IF RLeq(c[1].s, sLo) THEN { << c[1].point >> }
             ELSE IF RGt(c[1].s, sHi) THEN { <<>> }
             ELSE { <<>>, << c[1].point >> }

\* Octree::ray_intersection_target_and_parameter for a ray in direction v
\* from the point origin + s * along, where of s only sLo <= s <= sHi is
\* known
ray_intersection(scene, probe, origin, along, sLo, sHi, v) ==
    IF scene.kind = "table" THEN { scene[probe] }
    ELSE LET lo == FlatCrossing(scene, VAdd(origin, VScale(sLo, along)), v)
             hi == FlatCrossing(scene, VAdd(origin, VScale(sHi, along)), v)
         IN  { IF c = <<>> THEN <<>> ELSE << c[1].point >> : c \in {lo, hi} }

\* trace_flow that probes the tangential segment before the upward one
trace_flow_tangential_first(scene, from, up, tangential_direction, flow_distance) ==
    LET upward_epsilon == RMul(flow_distance, R(13, 10))
        from1 == VAdd(from, VScale(SELF_INTERSECTION_EPSILON, up))
        to    == VAdd(from1, VScale(flow_distance, tangential_direction))
        atop  == VAdd(from1, VScale(upward_epsilon, up))
        v     == VSub(to, atop)
        sLo   == RAdd(RInt(1), RDiv(FLOW_ADHESIVENESS,
                                    RAdd(upward_epsilon, flow_distance)))
        sHi   == RAdd(RInt(1), RDiv(FLOW_ADHESIVENESS, upward_epsilon))
        upward_hit ==
            line_segment_intersection(scene, "upward", from1, up,
                                      upward_epsilon, upward_epsilon)
        tangential_hit ==
            line_segment_intersection(scene, "tangential", atop, v, sLo, sHi)
        secondary_target ==
            ray_intersection(scene, "gravity", atop, v, sLo, sHi, gravity_direction)
    IN  UNION { IF h # <<>> THEN { TracerHit(h[1], "dir") }
                ELSE UNION { IF u # <<>> THEN { TracerHit(u[1], "up") }
                             ELSE { IF g # <<>>
                                    THEN TracerHit(g[1], "gravity_direction")
                                    ELSE <<>> : g \in secondary_target }
                             : u \in upward_hit }
                : h \in tangential_hit }

\* Tracer::trace_flow: the set of results the call can give.  dir is
\* (to - atop) normalized and |to - atop| = expected_dist for orthonormal up
\* and tangential_direction, so the tangential segment is the points
\* atop + s * (to - atop) with 0 <= s <= 1 + FLOW_ADHESIVENESS / expected_dist;
\* of expected_dist = sqrt(upward_epsilon^2 + flow_distance^2) the model
\* keeps that it is at least upward_epsilon and at most
\* upward_epsilon + flow_distance.
trace_flow(scene, from, up, tangential_direction, flow_distance) ==
    LET upward_epsilon == RMul(flow_distance, R(13, 10))
        from1 == VAdd(from, VScale(SELF_INTERSECTION_EPSILON, up))
        to    == VAdd(from1, VScale(flow_distance, tangential_direction))
        atop  == VAdd(from1, VScale(upward_epsilon, up))
        v     == VSub(to, atop)
        sLo   == RAdd(RInt(1), RDiv(FLOW_ADHESIVENESS,
                                    RAdd(upward_epsilon, flow_distance)))
        sHi   == RAdd(RInt(1), RDiv(FLOW_ADHESIVENESS, upward_epsilon))
        upward_hit ==
            line_segment_intersection(scene, "upward", from1, up,
                                      upward_epsilon, upward_epsilon)
        tangential_hit ==
            line_segment_intersection(scene, "tangential", atop, v, sLo, sHi)
        secondary_target ==
            ray_intersection(scene, "gravity", atop, v, sLo, sHi, gravity_direction)
    IN  UNION { IF u # <<>> THEN { TracerHit(u[1], "up") }
                ELSE UNION { IF h # <<>> THEN { TracerHit(h[1], "dir") }
                             ELSE { IF g # <<>>
                                    THEN TracerHit(g[1], "gravity_direction")
                                    ELSE <<>> : g \in secondary_target }
                             : h \in tangential_hit }
                : u \in upward_hit }

(* One call of trace_flow, from a point of the plane u = 0 with up = <<0, 1>> *)
(* and tangential direction <<1, 0>>.                                      *)

FlowDistances ==
    { R(2, 5), R(4, 5), R(9, 10), R(99, 100), R(19999, 20000),
      R(101, 100), R(21, 20), R(3, 2) }

FlowOrigins == { <<RZero, RZero>>, <<Half, RZero>> }

\* the points the probes of a table scene can answer
UpwardPoint     == <<RZero, R(1, 10)>>
TangentialPoint == <<Half, R(1, 20)>>
GravityPoint    == <<RInt(2), RInt(-1)>>

FlowScenes ==
    { TableScene(u, h, g) : u \in { <<>>, <<UpwardPoint>> },
                            h \in { <<>>, <<TangentialPoint>> },
                            g \in { <<>>, <<GravityPoint>> } }
    \cup { FlatScene(RInt(1)) }

FlowInit ==
    /\ \E scene \in FlowScenes, from \in FlowOrigins, d \in FlowDistances :
           trace = [scene |-> scene, from |-> from, flow_distance |-> d,
                    returned |-> FALSE, result |-> <<>>]
    /\ pc = "trace_flow"
    /\ sources = <<>>
    /\ surface = <<>>
    /\ surfel_rules = <<>>
    /\ config = "Classic"
    /\ closed = FALSE
    /\ src_k = 1
    /\ emissions = <<>>
    /\ hits = <<>>
    /\ interaction_info = <<>>
    /\ done = {}
    /\ results = <<>>
    /\ ex_i = 1
    /\ ex_j = 1
    /\ layer = 0
    /\ panicked = FALSE
    /\ hist = <<>>

\* tracer.trace_flow(from, up, tangential_direction, flow_distance) returns
FlowStep ==
    /\ pc = "trace_flow"
    /\ ~trace.returned
    /\ \E r \in trace_flow(trace.scene, trace.from, <<RZero, RInt(1)>>,
                            <<RInt(1), RZero>>, trace.flow_distance) :
           trace' = [trace EXCEPT !.returned = TRUE, !.result = r]
    /\ UNCHANGED <<sources, surface, surfel_rules, config, closed, pc, src_k,
                   emissions, hits, interaction_info, done, results, ex_i, ex_j,
                   layer, panicked, hist>>

FlowNext == FlowStep

SpecFlow == FlowInit /\ [][FlowNext]_vars

\* the first hit of the three probes of a table scene, in the order upward,
\* tangential, gravity
FirstOfProbes(scene) ==
    IF scene.upward # <<>> THEN TracerHit(scene.upward[1], "up")
    ELSE IF scene.tangential # <<>> THEN TracerHit(scene.tangential[1], "dir")
    ELSE IF scene.gravity # <<>>
         THEN TracerHit(scene.gravity[1], "gravity_direction")
         ELSE <<>>

FlowInOrder ==
    (trace.returned /\ trace.scene.kind = "table")
        => trace.result = FirstOfProbes(trace.scene)

OnFlat(scene, p) ==
    /\ p[2] = RZero
    /\ RLeq(RNeg(scene.half), p[1])
    /\ RLeq(p[1], scene.half)

\* from + d * tangential
ClaimedPoint == <<RAdd(trace.from[1], trace.flow_distance), trace.from[2]>>

\* from + (d + SELF_INTERSECTION_EPSILON / 1.3) * tangential
LandingPoint ==
    <<RAdd(ClaimedPoint[1], RDiv(SELF_INTERSECTION_EPSILON, R(13, 10))),
      trace.from[2]>>

\* C23 as stated: trace_flow returns the first hit of the upward segment,
\* the tangential segment and the gravity ray, None exactly when all three
\* miss, and on a flat surface a flow step of distance d lands at
\* from + d * tangential when that point lies on the surface and returns
\* None when it lies beyond the edge.
C23_FlowLandsExactly ==
    /\ FlowInOrder
    /\ (trace.returned /\ trace.scene.kind = "flat")
          => IF OnFlat(trace.scene, ClaimedPoint)
             THEN trace.result = TracerHit(ClaimedPoint, "dir")
             ELSE trace.result = <<>>

\* C23, amended: trace_flow returns the first hit of the upward segment, the
\* tangential segment and the gravity ray, None exactly when all three miss;
\* on a flat surface a flow step of distance d lands at
\* from + (d + SELF_INTERSECTION_EPSILON / 1.3) * tangential, which is within
\* SELF_INTERSECTION_EPSILON of from + d * tangential, when that landing
\* point lies on the surface, and returns None when it lies beyond the edge.
C23_FlowProbesInOrder ==
    /\ FlowInOrder
    /\ (trace.returned /\ trace.scene.kind = "flat")
          => IF OnFlat(trace.scene, LandingPoint)
             THEN /\ trace.result = TracerHit(LandingPoint, "dir")
                  /\ RLeq(RSub(LandingPoint[1], ClaimedPoint[1]),
                          SELF_INTERSECTION_EPSILON)
             ELSE trace.result = <<>>

C23_Witness ==
    /\ trace.returned
    /\ trace.scene.kind = "flat"
    /\ trace.flow_distance = R(99, 100)
    /\ trace.result # <<>>
    /\ trace.result[1].incoming_direction = "dir"

-----------------------------------------------------------------------------
(* Tracer::trace_parabolic, one pass of its while loop per step, in the    *)
(* plane of a lateral axis and the y axis.  The scene's triangles are not  *)
(* modelled: any segment may hit or miss.                                  *)

gravity_mag == R(981, 100)

timestep == R(1, 60)

\* std::f32::INFINITY, as the quotient 1/0
INFINITY == <<1, 0>>

\* the steps of the loop the model follows
MaxSteps == 64

\* self.geometry.bounds() with bounds.max.y = INFINITY
scene_bounds(min, max_x) == [min |-> min, max |-> <<max_x, INFINITY>>]

\* Aabb::is_point_inside
is_point_inside(bounds, p) ==
    /\ RLeq(bounds.min[1], p[1])
    /\ RLeq(p[1], bounds.max[1])
    /\ RLeq(bounds.min[2], p[2])
    /\ (IF bounds.max[2] = INFINITY THEN TRUE ELSE RLeq(p[2], bounds.max[2]))

TakeoffSpeeds == { RZero, RInt(1), RInt(2) }

\* parabola heights whose takeoff velocity sqrt(2 g h) is rational
ParabolaHeights ==
    { RDiv(RMul(v, v), RMul(RInt(2), gravity_mag)) : v \in TakeoffSpeeds }

\* f32::sqrt, on the values the model takes it of
Sqrt(q) == CHOOSE v \in TakeoffSpeeds : RMul(v, v) = q

ParabolicBounds ==
    { scene_bounds(<<RInt(-1), RInt(-1)>>, RInt(1)),
      scene_bounds(<<RInt(-1), RZero>>, RInt(1)) }

ParabolicOrigins == { <<RZero, RZero>>, <<Half, R(-1, 2)>>, <<RInt(2), RZero>> }

ParabolicDirections ==
    { <<RZero, RInt(1)>>, <<R(3, 5), R(4, 5)>>, <<RInt(1), RZero>>,
      <<R(-4, 5), R(3, 5)>>, <<RZero, RInt(-1)>> }

\* trace_parabolic is entered: the locals before the loop
PInit ==
    /\ \E bounds \in ParabolicBounds, from \in ParabolicOrigins,
          direction \in ParabolicDirections,
          upward_parabola_height \in ParabolaHeights :
          LET takeoff_velocity_mag ==
                  Sqrt(RMul(RMul(RInt(2), gravity_mag), upward_parabola_height))
          IN  trace = [scene_bounds |-> bounds,
                       velocity |-> VScale(takeoff_velocity_mag, direction),
                       position |-> VAdd(from, VScale(SELF_INTERSECTION_EPSILON,
                                                      direction)),
                       steps |-> 0, returned |-> FALSE, result |-> <<>>]
    /\ pc = "trace_parabolic"
    /\ sources = <<>>
    /\ surface = <<>>
    /\ surfel_rules = <<>>
    /\ config = "Classic"
    /\ closed = FALSE
    /\ src_k = 1
    /\ emissions = <<>>
    /\ hits = <<>>
    /\ interaction_info = <<>>
    /\ done = {}
    /\ results = <<>>
    /\ ex_i = 1
    /\ ex_j = 1
    /\ layer = 0
    /\ panicked = FALSE
    /\ hist = <<>>

\* what the segment query of one pass can answer: no hit, or a hit at the
\* fraction t of the segment
SegmentAnswers == { <<>>, <<Half>>, <<RInt(1)>> }

\* one pass of the loop that leaves the velocity as it is
loop_pass_no_gravity(locals, answer) ==
    LET velocity == locals.velocity
        spatial_delta == VScale(timestep, velocity)
    IN  IF answer # <<>>
        THEN [locals EXCEPT
                !.velocity = velocity,
                !.steps = locals.steps + 1,
                !.returned = TRUE,
                !.result = TracerHit(VAdd(locals.position,
                                          VScale(answer[1], spatial_delta)),
                                     "direction")]
        ELSE [locals EXCEPT
                !.velocity = velocity,
                !.steps = locals.steps + 1,
                !.position = VAdd(locals.position, spatial_delta)]

\* the body of `while scene_bounds.is_point_inside(position)`: the segment
\* of this timestep hits a triangle, at some point of the segment, and the
\* call returns the hit, or it does not and the position moves on
loop_pass(locals, answer) ==
    LET gravity_acceleration == VScale(gravity_mag, gravity_direction)
        velocity == VAdd(locals.velocity, VScale(timestep, gravity_acceleration))
        spatial_delta == VScale(timestep, velocity)
    IN  IF answer # <<>>
        THEN [locals EXCEPT
                !.velocity = velocity,
                !.steps = locals.steps + 1,
                !.returned = TRUE,
                !.result = TracerHit(VAdd(locals.position,
                                          VScale(answer[1], spatial_delta)),
                                     "direction")]
        ELSE [locals EXCEPT
                !.velocity = velocity,
                !.steps = locals.steps + 1,
                !.position = VAdd(locals.position, spatial_delta)]

\* one pass of the loop
ParabolicStep ==
    /\ pc = "trace_parabolic"
    /\ ~trace.returned
    /\ is_point_inside(trace.scene_bounds, trace.position)
    /\ trace.steps < MaxSteps
    /\ \E answer \in SegmentAnswers : trace' = loop_pass(trace, answer)
    /\ UNCHANGED <<sources, surface, surfel_rules, config, closed, pc, src_k,
                   emissions, hits, interaction_info, done, results, ex_i, ex_j,
                   layer, panicked, hist>>

\* the loop condition fails: the call returns None
ParabolicExit ==
    /\ pc = "trace_parabolic"
    /\ ~trace.returned
    /\ ~is_point_inside(trace.scene_bounds, trace.position)
    /\ trace' = [trace EXCEPT !.returned = TRUE, !.result = <<>>]
    /\ UNCHANGED <<sources, surface, surfel_rules, config, closed, pc, src_k,
                   emissions, hits, interaction_info, done, results, ex_i, ex_j,
                   layer, panicked, hist>>

PNext == ParabolicStep \/ ParabolicExit

SpecParabolic == PInit /\ [][PNext]_vars

\* C30: trace_parabolic returns after finitely many passes of its loop for
\* every start position, launch direction and parabola height: the passes
\* stay below the number the model would follow, a call that has not
\* returned is inside the bounds and takes another pass or is outside and
\* returns, and it returns a hit, or None with the position outside the
\* bounds, below them or beside them.
C30_ParabolicTerminates ==
    /\ trace.steps < MaxSteps
    /\ trace.returned =>
          (trace.result = <<>>
             <=> ~is_point_inside(trace.scene_bounds, trace.position))
    /\ ~is_point_inside(trace.scene_bounds, trace.position) =>
          \/ RLt(trace.position[2], trace.scene_bounds.min[2])
          \/ RLt(trace.position[1], trace.scene_bounds.min[1])
          \/ RGt(trace.position[1], trace.scene_bounds.max[1])

\* a particle launched upward rose, fell back through its start height
\* without a hit and left the bounds below them: the call returned None
C30_Witness ==
    /\ trace.returned
    /\ trace.result = <<>>
    /\ trace.steps > 40
    /\ RLt(trace.position[2], trace.scene_bounds.min[2])
    /\ RLeq(trace.scene_bounds.min[1], trace.position[1])
    /\ RLeq(trace.position[1], trace.scene_bounds.max[1])

-----------------------------------------------------------------------------
(* The layered iteration Simulation::run_fast (sim.rs).                    *)
(*                                                                         *)
(* The tracer and the surface's spatial queries are outside the model: a   *)
(* trace gives None or a hit at one of the points of PointTable, which     *)
(* fixes, for a hit there, the indices the sphere query returns, the       *)
(* nearest surfel and the side the hit triangle faces.  A rayon parallel   *)
(* phase is a set of per-hit tasks that run in any order and a join.       *)

\* Simulation::absorb (sim.rs)
Simulation_absorb(ton, surfel, count_weight) ==
    IF ~LengthsAgree(ton, surfel) THEN Result(ton, surfel, TRUE)
    ELSE
    LET n == Min(Len(ton.pickup_rates),
                 Min(Len(ton.substances), Len(surfel.substances)))
        pickup_rate(i) == RMul(count_weight, ton.pickup_rates[i])
        transport_amount(i) ==
            RMul(pickup_rate(i),
                 IF RGeq(pickup_rate(i), RZero) THEN surfel.substances[i]
                 ELSE ton.substances[i])
    IN  Result(
          [ton EXCEPT !.substances =
              [i \in 1..Len(ton.substances) |->
                  IF i <= n THEN RMax0(RAdd(ton.substances[i], transport_amount(i)))
                  ELSE ton.substances[i]]],
          [surfel EXCEPT !.substances =
              [i \in 1..Len(surfel.substances) |->
                  IF i <= n THEN RMax0(RSub(surfel.substances[i], transport_amount(i)))
                  ELSE surfel.substances[i]]],
          FALSE)

\* deposit that stores the weighted rate back into the surfel
Simulation_deposit_scales_rates(ton, surfel, count_weight) ==
    IF ~LengthsAgree(ton, surfel) THEN Result(ton, surfel, TRUE)
    ELSE
    LET n == Min(Len(surfel.deposition_rates),
                 Min(Len(ton.substances), Len(surfel.substances)))
        deposition_rate(i) == RMul(count_weight, surfel.deposition_rates[i])
        transport_amount(i) == RMul(deposition_rate(i), ton.substances[i])
    IN  Result(
          ton,
          [surfel EXCEPT
              !.substances =
                  [i \in 1..Len(surfel.substances) |->
                      IF i <= n
                      THEN RMax0(RAdd(surfel.substances[i], transport_amount(i)))
                      ELSE surfel.substances[i]],
              !.deposition_rates =
                  [i \in 1..Len(surfel.deposition_rates) |->
                      IF i <= n THEN deposition_rate(i)
                      ELSE surfel.deposition_rates[i]]],
          FALSE)

\* Simulation::deposit (sim.rs): takes &Ton and writes only the surfel
Simulation_deposit(ton, surfel, count_weight) ==
    IF ~LengthsAgree(ton, surfel) THEN Result(ton, surfel, TRUE)
    ELSE
    LET n == Min(Len(surfel.deposition_rates),
                 Min(Len(ton.substances), Len(surfel.substances)))
        deposition_rate(i) == RMul(count_weight, surfel.deposition_rates[i])
        transport_amount(i) == RMul(deposition_rate(i), ton.substances[i])
    IN  Result(
          ton,
          [surfel EXCEPT !.substances =
              [i \in 1..Len(surfel.substances) |->
                  IF i <= n THEN RMax0(RAdd(surfel.substances[i], transport_amount(i)))
                  ELSE surfel.substances[i]]],
          FALSE)

\* Option::None of a trace result; the hits are the indices of PointTable
None == 0

\* the side each surfel's normal faces (the sign that decides the dot
\* product with a hit triangle's normal)
SurfelSide == <<1, 1, -1>>

\* the points a trace can hit; side is the sign of the dot product of the
\* hit triangle's normal with a normal of side 1 (0: perpendicular to the
\* surfels' normals)
PointTable ==
    << [nearest |-> 1, sphere |-> <<1, 2>>, side |-> 1],
       [nearest |-> 2, sphere |-> <<3, 2>>, side |-> 1],
       [nearest |-> 3, sphere |-> <<>>,     side |-> -1],
       [nearest |-> 1, sphere |-> <<2, 1>>, side |-> 0] >>

Points == DOMAIN PointTable

\* what Tracer::trace_straight / trace_parabolic / trace_flow can return
TraceOutcomes == IF closed THEN Points ELSE Points \cup {None}

\* the selection without the fallback to the nearest surfel
interaction_idxs_no_fallback(hit) ==
    SelectSeq(PointTable[hit.point].sphere,
              LAMBDA i : hit.side * SurfelSide[i] > 0)

\* surf.find_within_sphere_indexes, the retain on the normals and the
\* fallback to nearest_idx in select_interaction_idxs_and_next_motion_type
interaction_idxs(hit) ==
    LET found == PointTable[hit.point].sphere
        kept  == SelectSeq(found, LAMBDA i : hit.side * SurfelSide[i] > 0)
    IN  IF Len(kept) = 0 THEN Append(kept, PointTable[hit.point].nearest)
        ELSE kept

\* next_hit that traces on for a settled particle as well
next_hit_settled_traces(motion_type) == TraceOutcomes

\* Simulation::next_hit: None for Settled, else the result of the trace
next_hit(motion_type) ==
    IF motion_type = "Settled" THEN {None} ELSE TraceOutcomes

RECURSIVE Collect(_, _, _)
\* filter_map(..).collect(): the tons whose trace hit, in order, each at
\* its new hit point
Collect(tons, outcome, k) ==
    IF k > Len(tons) THEN <<>>
    ELSE IF outcome[k] = None THEN Collect(tons, outcome, k + 1)
    ELSE <<Hit(tons[k], outcome[k], PointTable[outcome[k]].side)>>
           \o Collect(tons, outcome, k + 1)

RECURSIVE Survivors(_, _, _)
\* the particles Collect keeps: ids[k] for every k whose outcome is a hit
Survivors(ids, outcome, k) ==
    IF k > Len(ids) THEN <<>>
    ELSE IF outcome[k] = None THEN Survivors(ids, outcome, k + 1)
    ELSE <<ids[k]>> \o Survivors(ids, outcome, k + 1)

\* what hist records of the run_fast calls: the number of calls begun, the
\* surface at the start of the current call, and for the current call the
\* identity of the particle of every entry of hits (its index among the
\* emissions), the particles that left the iteration (missed or settled),
\* the number of settle exchanges of every particle, and the number of rule
\* passes
IterHist(iter, start, ids, retired, settles, rule_passes) ==
    [iter |-> iter, start |-> start, ids |-> ids, retired |-> retired,
     settles |-> settles, rule_passes |-> rule_passes]

MaxLayers == 2

MaxIterations == 2

SimSurface ==
    << SurfelData(0, 1, 1, 1, <<RZero, RZero>>, <<RInt(1), RInt(1)>>, <<>>),
       SurfelData(0, 0, 0, 0, <<RInt(1), RZero>>, <<Half, RInt(1)>>, <<>>),
       SurfelData(1, 2, 0, 1, <<RZero, RZero>>, <<RInt(1), RInt(1)>>,
                  <<Deteriorate(1, R(-1, 2))>>) >>

SimSources ==
    { << TonSource(2, 0, 1, <<RInt(1), RZero>>, <<RInt(1), RInt(1)>>, 2) >>,
      << TonSource(2, 0, 1, <<RInt(1), RZero>>, <<RInt(1), RInt(1)>>, 1),
         TonSource(0, 2, 0, <<RZero, RInt(1)>>, <<Half, RZero>>, 1) >>,
      << TonSource(0, 0, 0, <<RInt(1), RZero>>, <<RInt(1), RInt(1)>>, 0) >> }

\* Simulation::new
Init ==
    /\ sources \in SimSources
    /\ surface = SimSurface
    /\ surfel_rules = << Transfer(1, 2, R(1, 10)) >>
    /\ config = "Classic"
    /\ closed = FALSE
    /\ pc = "start"
    /\ src_k = 1
    /\ emissions = <<>>
    /\ hits = <<>>
    /\ interaction_info = <<>>
    /\ done = {}
    /\ results = <<>>
    /\ ex_i = 1
    /\ ex_j = 1
    /\ layer = 0
    /\ panicked = FALSE
    /\ trace = <<>>
    /\ hist = IterHist(0, SimSurface, <<>>, {}, <<>>, 0)

\* what no step of run_fast writes
fixed == <<sources, surfel_rules, config, closed, trace>>

static == <<sources, surfel_rules, config, closed, trace, hist>>

\* run_fast is called: `let mut emissions = Vec::with_capacity(..)`
RunFast ==
    /\ pc = "start"
    /\ pc' = "emit"
    /\ src_k' = 1
    /\ emissions' = <<>>
    /\ layer' = 0
    /\ hist' = IterHist(hist.iter + 1, surface, <<>>, {}, <<>>, 0)
    /\ UNCHANGED <<fixed, surface, hits, interaction_info, done, results,
                   ex_i, ex_j, panicked>>

\* one pass of `for source in &self.sources`: collect_into_vec truncates
\* its target vector and then fills it with the source's emissions
EmitSource ==
    /\ pc = "emit"
    /\ src_k <= Len(sources)
    /\ emissions' = [i \in 1..sources[src_k].emission_count |->
                        emit_one(sources[src_k])]
    /\ src_k' = src_k + 1
    /\ UNCHANGED <<static, surface, pc, hits, interaction_info, done, results,
                   ex_i, ex_j, layer, panicked>>

\* Simulation::initial_hits: the first straight trace of every emission
InitialHits ==
    /\ pc = "emit"
    /\ src_k > Len(sources)
    /\ \E outcome \in [1..Len(emissions) -> TraceOutcomes] :
         /\ hits' = Collect(emissions, outcome, 1)
         /\ hist' = [hist EXCEPT
                !.ids = Survivors([k \in 1..Len(emissions) |-> k], outcome, 1),
                !.retired = {k \in 1..Len(emissions) : outcome[k] = None},
                !.settles = [k \in 1..Len(emissions) |-> 0]]
    /\ pc' = "loop"
    /\ UNCHANGED <<fixed, surface, src_k, emissions, interaction_info, done,
                   results, ex_i, ex_j, layer, panicked>>

\* the loop left while hits still holds particles
LoopExit_early ==
    /\ pc = "loop"
    /\ pc' = "rules"
    /\ UNCHANGED <<static, surface, src_k, emissions, hits, interaction_info,
                   done, results, ex_i, ex_j, layer, panicked>>

\* `while !hits.is_empty()` finds hits empty
LoopExit ==
    /\ pc = "loop"
    /\ hits = <<>>
    /\ pc' = "rules"
    /\ UNCHANGED <<static, surface, src_k, emissions, hits, interaction_info,
                   done, results, ex_i, ex_j, layer, panicked>>

\* `while !hits.is_empty()` enters trace_deepen; the model follows at most
\* cap layers
TraceDeepen(cap) ==
    /\ pc = "loop"
    /\ hits # <<>>
    /\ layer < cap
    /\ layer' = layer + 1
    /\ pc' = "select"
    /\ interaction_info' = [h \in 1..Len(hits) |-> <<>>]
    /\ done' = {}
    /\ UNCHANGED <<static, surface, src_k, emissions, hits, results, ex_i, ex_j,
                   panicked>>

\* one task of the parallel map over
\* select_interaction_idxs_and_next_motion_type
SelectTask ==
    /\ pc = "select"
    /\ \E h \in (1..Len(hits)) \ done, random \in 0..(PScale - 1) :
         /\ interaction_info' =
               [interaction_info EXCEPT
                   ![h] = << select_motion_type(hits[h].ton, random),
                             interaction_idxs(hits[h]) >>]
         /\ done' = done \cup {h}
    /\ UNCHANGED <<static, surface, pc, src_k, emissions, hits, results, ex_i,
                   ex_j, layer, panicked>>

\* one task of the parallel for_each over deteriorate_fast
DeteriorateTask ==
    /\ pc = "deteriorate"
    /\ \E h \in (1..Len(hits)) \ done :
         /\ hits' = [hits EXCEPT
                        ![h].ton = deteriorate(@, surface[interaction_info[h][2][1]])]
         /\ done' = done \cup {h}
    /\ UNCHANGED <<static, surface, pc, src_k, emissions, interaction_info,
                   results, ex_i, ex_j, layer, panicked>>

\* the end of a parallel phase: every task has finished
Join ==
    /\ pc \in {"select", "deteriorate"}
    /\ done = 1..Len(hits)
    /\ pc' = IF pc = "select" THEN "deteriorate" ELSE "exchange"
    /\ done' = {}
    /\ ex_i' = 1
    /\ ex_j' = 1
    /\ UNCHANGED <<static, surface, src_k, emissions, hits, interaction_info,
                   results, layer, panicked>>

\* the exchange fused into a parallel phase: any hit may exchange with any
\* surfel of its list at any time (done holds the finished <<hit, position>>)
ExchangeStep_parallel ==
    /\ pc = "exchange"
    /\ \E h \in 1..Len(hits) : \E j \in 1..Len(interaction_info[h][2]) :
         /\ <<h, j>> \notin done
         /\ LET info == interaction_info[h]
                idx  == info[2][j]
                count_weight == Recip(Len(info[2]))
                r == IF info[1] = "Settled"
                     THEN Simulation_deposit(hits[h].ton, surface[idx], count_weight)
                     ELSE Simulation_absorb(hits[h].ton, surface[idx], count_weight)
                all == { <<g, k>> \in (1..Len(hits)) \X (1..Len(surface)) :
                            k <= Len(interaction_info[g][2]) }
            IN  /\ hits' = [hits EXCEPT ![h].ton = r.ton]
                /\ surface' = [surface EXCEPT ![idx] = r.surfel]
                /\ IF done \cup {<<h, j>>} = all
                   THEN /\ pc' = "next_hit"
                        /\ done' = {}
                        /\ results' = [g \in 1..Len(hits) |-> None]
                   ELSE /\ done' = done \cup {<<h, j>>}
                        /\ UNCHANGED <<pc, results>>
    /\ UNCHANGED <<static, src_k, emissions, interaction_info, layer, ex_i, ex_j,
                   panicked>>

\* one iteration of the inner `for idx in surfel_idxs` of the sequential
\* exchange loop, for hit ex_i and the surfel at position ex_j of its list
ExchangeStep ==
    /\ pc = "exchange"
    /\ LET info == interaction_info[ex_i]
           idx  == info[2][ex_j]
           count_weight == Recip(Len(info[2]))
           r == IF info[1] = "Settled"
                THEN Simulation_deposit(hits[ex_i].ton, surface[idx], count_weight)
                ELSE Simulation_absorb(hits[ex_i].ton, surface[idx], count_weight)
           lastOfHit == ex_j = Len(info[2])
           id == hist.ids[ex_i]
       IN  IF r.panic
           THEN /\ panicked' = TRUE
                /\ pc' = "panicked"
                /\ UNCHANGED <<hits, surface, ex_i, ex_j, done, results, hist>>
           ELSE /\ hits' = [hits EXCEPT ![ex_i].ton = r.ton]
                /\ hist' = [hist EXCEPT
                       !.settles[id] =
                           IF info[1] = "Settled" /\ ex_j = 1 THEN @ + 1 ELSE @,
                       !.retired =
                           IF info[1] = "Settled" /\ lastOfHit
                           THEN @ \cup {id} ELSE @]
                /\ surface' = [surface EXCEPT ![idx] = r.surfel]
                /\ ex_i' = IF lastOfHit THEN ex_i + 1 ELSE ex_i
                /\ ex_j' = IF lastOfHit THEN 1 ELSE ex_j + 1
                /\ IF lastOfHit /\ ex_i = Len(hits)
                   THEN /\ pc' = "next_hit"
                        /\ done' = {}
                        /\ results' = [h \in 1..Len(hits) |-> None]
                   ELSE UNCHANGED <<pc, done, results>>
                /\ UNCHANGED panicked
    /\ UNCHANGED <<fixed, src_k, emissions, interaction_info, layer>>

\* one task of the parallel filter_map over Simulation::next_hit
NextHitTask ==
    /\ pc = "next_hit"
    /\ \E h \in (1..Len(hits)) \ done :
         \E o \in next_hit(interaction_info[h][1]) :
            /\ results' = [results EXCEPT ![h] = o]
            /\ done' = done \cup {h}
            /\ hist' = [hist EXCEPT
                   !.retired = IF o = None THEN @ \cup {hist.ids[h]} ELSE @]
    /\ UNCHANGED <<fixed, surface, pc, src_k, emissions, hits, interaction_info,
                   ex_i, ex_j, layer, panicked>>

\* .collect() of the next-hit phase: the new hits vector
NextHitJoin ==
    /\ pc = "next_hit"
    /\ done = 1..Len(hits)
    /\ hits' = Collect([h \in 1..Len(hits) |-> hits[h].ton], results, 1)
    /\ hist' = [hist EXCEPT !.ids = Survivors(@, results, 1)]
    /\ pc' = "loop"
    /\ interaction_info' = <<>>
    /\ results' = <<>>
    /\ done' = {}
    /\ UNCHANGED <<fixed, surface, src_k, emissions, ex_i, ex_j, layer, panicked>>

\* the rule pass left out when the iteration had no hit
PerformRules_skips_when_idle ==
    /\ pc = "rules"
    /\ surface' = IF layer = 0 THEN surface
                  ELSE perform_rules(surface, surfel_rules)
    /\ pc' = "finished"
    /\ hist' = [hist EXCEPT !.rule_passes = @ + 1]
    /\ UNCHANGED <<fixed, src_k, emissions, hits, interaction_info, done,
                   results, ex_i, ex_j, layer, panicked>>

\* Self::perform_rules(&mut self.surface, &self.surfel_rules)
PerformRules ==
    /\ pc = "rules"
    /\ surface' = perform_rules(surface, surfel_rules)
    /\ pc' = "finished"
    /\ hist' = [hist EXCEPT !.rule_passes = @ + 1]
    /\ UNCHANGED <<fixed, src_k, emissions, hits, interaction_info, done,
                   results, ex_i, ex_j, layer, panicked>>

\* run_fast has returned and the caller advances the simulation by another
\* iteration
Iterate ==
    /\ pc = "finished"
    /\ hist.iter < MaxIterations
    /\ pc' = "start"
    /\ UNCHANGED <<static, surface, src_k, emissions, hits, interaction_info,
                   done, results, ex_i, ex_j, layer, panicked>>

Next ==
    \/ RunFast
    \/ EmitSource
    \/ InitialHits
    \/ LoopExit
    \/ TraceDeepen(MaxLayers)
    \/ SelectTask
    \/ DeteriorateTask
    \/ Join
    \/ ExchangeStep
    \/ NextHitTask
    \/ NextHitJoin
    \/ PerformRules

Spec == Init /\ [][Next]_vars

-----------------------------------------------------------------------------
(* Successive iterations: run_fast is called again after it returned, with *)
(* a source of one particle over the surface the earlier iterations left.  *)

IterSources ==
    { << TonSource(2, 0, 1, <<RInt(1), RZero>>, <<RInt(1), RInt(1)>>, 1) >> }

IInit ==
    /\ sources \in IterSources
    /\ surface = SimSurface
    /\ surfel_rules = << Transfer(1, 2, Half) >>
    /\ config = "Classic"
    /\ closed = FALSE
    /\ pc = "start"
    /\ src_k = 1
    /\ emissions = <<>>
    /\ hits = <<>>
    /\ interaction_info = <<>>
    /\ done = {}
    /\ results = <<>>
    /\ ex_i = 1
    /\ ex_j = 1
    /\ layer = 0
    /\ panicked = FALSE
    /\ trace = <<>>
    /\ hist = IterHist(0, SimSurface, <<>>, {}, <<>>, 0)

NextIter ==
    \/ Iterate
    \/ RunFast
    \/ EmitSource
    \/ InitialHits
    \/ LoopExit
    \/ TraceDeepen(MaxLayers)
    \/ SelectTask
    \/ DeteriorateTask
    \/ Join
    \/ ExchangeStep
    \/ NextHitTask
    \/ NextHitJoin
    \/ PerformRules

SpecIter == IInit /\ [][NextIter]_vars

-----------------------------------------------------------------------------
(* The iteration whose particles need not settle: sources of tons that     *)
(* carry no substance over surfels with all deltas 0, in an open or a      *)
(* closed scene.                                                           *)

BounceLayers == 129

\* the bounce cap the specification names (sim.rs has none)
MAX_BOUNCES == 128

BounceSurface ==
    << SurfelData(0, 0, 0, 0, <<>>, <<>>, <<>>),
       SurfelData(0, 0, 0, 0, <<>>, <<>>, <<>>),
       SurfelData(0, 0, 0, 0, <<>>, <<>>, <<>>) >>

BounceSources ==
    { << TonSource(PScale, 0, 0, <<>>, <<>>, 1) >>,
      << TonSource(2, 0, 0, <<>>, <<>>, 2) >> }

BInit ==
    /\ sources \in BounceSources
    /\ surface = BounceSurface
    /\ surfel_rules = <<>>
    /\ config = "Classic"
    /\ closed \in BOOLEAN
    /\ pc = "start"
    /\ src_k = 1
    /\ emissions = <<>>
    /\ hits = <<>>
    /\ interaction_info = <<>>
    /\ done = {}
    /\ results = <<>>
    /\ ex_i = 1
    /\ ex_j = 1
    /\ layer = 0
    /\ panicked = FALSE
    /\ trace = <<>>
    /\ hist = IterHist(0, BounceSurface, <<>>, {}, <<>>, 0)

NextBounce ==
    \/ RunFast
    \/ EmitSource
    \/ InitialHits
    \/ LoopExit
    \/ TraceDeepen(BounceLayers)
    \/ SelectTask
    \/ DeteriorateTask
    \/ Join
    \/ ExchangeStep
    \/ NextHitTask
    \/ NextHitJoin
    \/ PerformRules

SpecBounce == BInit /\ [][NextBounce]_vars

-----------------------------------------------------------------------------
(* Settling: one iteration over surfaces whose deltas are all at least one *)
(* unit d = 1/PScale (and one surface with a zero delta), with sources of  *)
(* any probabilities in [0, 1], in an open and in a closed scene.          *)

\* the contacts after which a particle with probabilities in [0, 1] has
\* lost them all when every delta is at least 1/PScale: about PScale
\* contacts take p_straight and p_parabolic to 0, during which p_flow takes
\* up what p_parabolic loses, and about PScale more take p_flow to 0; on the
\* grid of multiples of 1/PScale the longest case takes 2 * PScale - 3
SettleContacts == 2 * PScale - 3

SettleSurfaces ==
    { << SurfelData(0, 1, 1, 1, <<>>, <<>>, <<>>),
         SurfelData(0, 1, 2, 1, <<>>, <<>>, <<>>),
         SurfelData(0, 2, 1, 3, <<>>, <<>>, <<>>) >>,
      << SurfelData(0, 0, 1, 1, <<>>, <<>>, <<>>),
         SurfelData(0, 0, 1, 1, <<>>, <<>>, <<>>),
         SurfelData(0, 0, 1, 1, <<>>, <<>>, <<>>) >> }

SettleSources ==
    { << TonSource(a, b, c, <<>>, <<>>, 1) >> : a, b, c \in {0, 1, PScale} }
    \cup { << TonSource(PScale, 0, PScale, <<>>, <<>>, 2) >> }

SInit ==
    /\ sources \in SettleSources
    /\ surface \in SettleSurfaces
    /\ surfel_rules = <<>>
    /\ config = "Classic"
    /\ closed \in BOOLEAN
    /\ pc = "start"
    /\ src_k = 1
    /\ emissions = <<>>
    /\ hits = <<>>
    /\ interaction_info = <<>>
    /\ done = {}
    /\ results = <<>>
    /\ ex_i = 1
    /\ ex_j = 1
    /\ layer = 0
    /\ panicked = FALSE
    /\ trace = <<>>
    /\ hist = IterHist(0, surface, <<>>, {}, <<>>, 0)

NextSettle ==
    \/ RunFast
    \/ EmitSource
    \/ InitialHits
    \/ LoopExit
    \/ TraceDeepen(SettleContacts + 3)
    \/ SelectTask
    \/ DeteriorateTask
    \/ Join
    \/ ExchangeStep
    \/ NextHitTask
    \/ NextHitJoin
    \/ PerformRules

SpecSettle == SInit /\ [][NextSettle]_vars

\* run_fast runs on a thread that is not starved: every task that can run
\* does run
SpecSettleFair == SpecSettle /\ WF_vars(NextSettle)

-----------------------------------------------------------------------------
(* Simulation::run, the depth-first iteration, as a function of what the   *)
(* random generator and the tracer answer.  A script gives, for every      *)
(* emitted particle in the order of sources.iter().flat_map(emit), the     *)
(* result of its first trace and, for its k-th contact, the draw of        *)
(* select_motion_type and the result of the trace that follows a bounce.   *)
(* The substance vectors have equal lengths here, no assert_eq! fails.     *)

RECURSIVE ExchangeOver(_, _, _, _, _, _)
\* `for idx in surfel_idxs { Self::deposit(..) }` for a settled particle,
\* `for idx in surfel_idxs { Self::absorb(..) }` otherwise, from position j
ExchangeOver(settled, ton, surf, surfel_idxs, count_weight, j) ==
    IF j > Len(surfel_idxs) THEN [ton |-> ton, surface |-> surf]
    ELSE LET idx == surfel_idxs[j]
             r == IF settled
                  THEN Simulation_deposit(ton, surf[idx], count_weight)
                  ELSE Simulation_absorb(ton, surf[idx], count_weight)
         IN  ExchangeOver(settled, r.ton, [surf EXCEPT ![idx] = r.surfel],
                          surfel_idxs, count_weight, j + 1)

RECURSIVE interact(_, _, _, _, _)
\* Simulation::interact for the k-th contact of a particle, at a point, with
\* Simulation::bounce and the contacts that follow: the surface it leaves
interact(surf, ton, point, contacts, k) ==
    LET surfel_idxs == interaction_idxs(Hit(ton, point, PointTable[point].side))
        next_motion_type == select_motion_type(ton, contacts[k].random)
        count_weight == Recip(Len(surfel_idxs))
    IN  IF next_motion_type = "Settled"
        THEN ExchangeOver(TRUE, ton, surf, surfel_idxs, count_weight, 1).surface
        ELSE LET deteriorated == deteriorate(ton, surf[surfel_idxs[1]])
                 a == ExchangeOver(FALSE, deteriorated, surf, surfel_idxs,
                                   count_weight, 1)
             IN  IF contacts[k].next = None \/ k = Len(contacts) THEN a.surface
                 ELSE interact(a.surface, a.ton, contacts[k].next, contacts, k + 1)

\* Simulation::emit: the first trace of an emission and its contacts
emit(surf, ton, script) ==
    IF script.first = None THEN surf
    ELSE interact(surf, ton, script.first, script.contacts, 1)

RECURSIVE flat_map_emit(_)
\* sources.iter().flat_map(TonSource::emit): the emissions of all sources
flat_map_emit(srcs) ==
    IF srcs = <<>> THEN <<>>
    ELSE [i \in 1..Head(srcs).emission_count |-> emit_one(Head(srcs))]
           \o flat_map_emit(Tail(srcs))

RECURSIVE for_each_emit(_, _, _, _)
\* .for_each(|e| Self::emit(surface, tracer, e)), from emission e on
for_each_emit(surf, tons, scripts, e) ==
    IF e > Len(tons) THEN surf
    ELSE for_each_emit(emit(surf, tons[e], scripts[e]), tons, scripts, e + 1)

\* Simulation::run: the surface after one iteration
run(srcs, surf, rules, scripts) ==
    perform_rules(for_each_emit(surf, flat_map_emit(srcs), scripts, 1), rules)

(* run_fast under a script: the layered iteration of Spec whose draws and  *)
(* traces are the ones the script gives to the particle concerned.         *)

\* the draws of a script: one that selects the first motion type with a
\* positive probability and one that settles a particle of probability
\* sum below 1
ScriptRandoms == {0, PScale - 1}

ScriptOutcomes == {None, 1, 2, 3}

\* a script names nothing that cannot happen: no contact after a miss, and
\* a miss after the last contact the model follows
Canonical(s) ==
    /\ s.contacts[MaxLayers].next = None
    /\ s.first = None => s.contacts[1] = [random |-> 0, next |-> None]
    /\ \A k \in 1..(MaxLayers - 1) :
          s.contacts[k].next = None
             => s.contacts[k + 1] = [random |-> 0, next |-> None]

ParticleScripts ==
    { s \in [first : ScriptOutcomes,
             contacts : [1..MaxLayers ->
                            [random : ScriptRandoms, next : ScriptOutcomes]]] :
         Canonical(s) }

CompareSources ==
    { << TonSource(2, 0, 1, <<RInt(1), RZero>>, <<RInt(1), RInt(1)>>, 2) >>,
      << TonSource(2, 0, 1, <<RInt(1), RZero>>, <<RInt(1), RInt(1)>>, 1),
         TonSource(0, 2, 0, <<RZero, RInt(1)>>, <<Half, RZero>>, 1) >> }

CInit ==
    /\ sources \in CompareSources
    /\ surface = SimSurface
    /\ surfel_rules = << Transfer(1, 2, R(1, 10)) >>
    /\ config = "Classic"
    /\ closed = FALSE
    /\ pc = "start"
    /\ src_k = 1
    /\ emissions = <<>>
    /\ hits = <<>>
    /\ interaction_info = <<>>
    /\ done = {}
    /\ results = <<>>
    /\ ex_i = 1
    /\ ex_j = 1
    /\ layer = 0
    /\ panicked = FALSE
    /\ trace \in [1..2 -> ParticleScripts]
    /\ hist = IterHist(0, SimSurface, <<>>, {}, <<>>, 0)

\* the place among all emissions of the iteration of the particle at
\* place k of the emissions vector, which holds the last source's emissions
EmissionOf(k) == Len(flat_map_emit(SubSeq(sources, 1, Len(sources) - 1))) + k

\* the script of the particle of hit h
ScriptOf(h) == trace[EmissionOf(hist.ids[h])]

InitialHitsScripted ==
    LET outcome == [k \in 1..Len(emissions) |-> trace[EmissionOf(k)].first]
    IN  /\ InitialHits
        /\ hits' = Collect(emissions, outcome, 1)
        /\ hist'.ids = Survivors([k \in 1..Len(emissions) |-> k], outcome, 1)

SelectTaskScripted ==
    /\ SelectTask
    /\ \A h \in done' \ done :
          interaction_info'[h][1] =
             select_motion_type(hits[h].ton, ScriptOf(h).contacts[layer].random)

NextHitTaskScripted ==
    /\ NextHitTask
    /\ \A h \in done' \ done :
          results'[h] = IF interaction_info[h][1] = "Settled" THEN None
                        ELSE ScriptOf(h).contacts[layer].next

NextCompare ==
    \/ RunFast
    \/ EmitSource
    \/ InitialHitsScripted
    \/ LoopExit
    \/ TraceDeepen(MaxLayers)
    \/ SelectTaskScripted
    \/ DeteriorateTask
    \/ Join
    \/ ExchangeStep
    \/ NextHitTaskScripted
    \/ NextHitJoin
    \/ PerformRules

SpecCompare == CInit /\ [][NextCompare]_vars

-----------------------------------------------------------------------------
(* Properties of the iteration.                                            *)

LayerPhases == {"select", "deteriorate", "exchange", "next_hit"}

\* the surfel index list hit h selected
IdxsOf(h) == interaction_info[h][2]

\* C2: within a bounce layer a step writes the surface only in the exchange
\* phase, and then only the surfel at the cursor (hit ex_i, position ex_j)
\* and only that hit's ton; the cursor goes through the positions of one
\* hit's list and then on to the next hit of the hits vector, and the phase
\* ends after the last position of the last hit.
C2_SerializedWrites ==
    [][ /\ (pc \in LayerPhases /\ pc # "exchange") => surface' = surface
        /\ pc = "exchange" =>
             /\ \A s \in DOMAIN surface :
                   s # IdxsOf(ex_i)[ex_j] => surface'[s] = surface[s]
             /\ \A h \in DOMAIN hits : h # ex_i => hits'[h] = hits[h]
             /\ \/ /\ ex_j < Len(IdxsOf(ex_i))
                   /\ pc' = "exchange" /\ ex_i' = ex_i /\ ex_j' = ex_j + 1
                \/ /\ ex_j = Len(IdxsOf(ex_i)) /\ ex_i < Len(hits)
                   /\ pc' = "exchange" /\ ex_i' = ex_i + 1 /\ ex_j' = 1
                \/ /\ ex_j = Len(IdxsOf(ex_i)) /\ ex_i = Len(hits)
                   /\ pc' = "next_hit"
                \/ pc' = "panicked"
      ]_vars

\* the exchange of the second of two hits whose neighborhoods share a
\* surfel is under way after the first hit's exchange wrote that surfel
C2_Witness ==
    /\ pc = "exchange"
    /\ Len(hits) = 2
    /\ ex_i = 2
    /\ \E s \in DOMAIN surface :
          /\ \E j \in DOMAIN IdxsOf(1) : IdxsOf(1)[j] = s
          /\ \E j \in DOMAIN IdxsOf(2) : IdxsOf(2)[j] = s
          /\ surface[s] # SimSurface[s]

\* C3 (as claimed): an iteration runs at most MAX_BOUNCES bounce layers.
C3_AtMostMaxBounces == layer <= MAX_BOUNCES

RECURSIVE SumCounts(_)
\* Simulation::emission_count
SumCounts(srcs) ==
    IF srcs = <<>> THEN 0 ELSE Head(srcs).emission_count + SumCounts(Tail(srcs))

\* C6 (as claimed): when the source loop of an iteration has ended, the
\* emissions handed to the initial trace are emission_count() many.
C6_AllSourcesTraced ==
    (pc = "emit" /\ src_k > Len(sources)) => Len(emissions) = SumCounts(sources)

\* C13: the sources keep the parameters they were constructed with; when a
\* source's emissions have been collected, each of them carries exactly that
\* source's probabilities, substances and pickup rates, whatever earlier
\* iterations did; and between the start of an iteration and its initial
\* trace no particle of an earlier iteration is in hits.
C13_FreshParticles ==
    /\ sources \in IterSources
    /\ (pc = "emit" /\ src_k > 1) =>
          \A i \in DOMAIN emissions :
              LET s == sources[src_k - 1]
                  e == emissions[i]
              IN  /\ e.p_straight = s.p_straight
                  /\ e.p_parabolic = s.p_parabolic
                  /\ e.p_flow = s.p_flow
                  /\ e.substances = s.substances
                  /\ e.pickup_rates = s.pickup_rates
    /\ pc \in {"start", "emit", "finished"} => hits = <<>>
    /\ (pc = "emit" /\ src_k = 1) => emissions = <<>>

\* the particle of a second iteration has been emitted over a surface that
\* the exchanges of the first iteration changed
C13_Witness ==
    /\ hist.iter = 2
    /\ pc = "emit" /\ src_k > 1 /\ emissions # <<>>
    /\ \E s \in DOMAIN surface :
          surface[s].substances # perform_rules(SimSurface, surfel_rules)[s].substances

\* the hits whose interaction info has been selected
Selected ==
    IF pc = "select" THEN done
    ELSE IF pc \in {"deteriorate", "exchange", "next_hit"} THEN DOMAIN hits
    ELSE {}

\* the surfels the sphere query found at hit h whose normal has a strictly
\* positive dot product with the hit triangle's normal
FrontFacing(h) ==
    LET found == PointTable[hits[h].point].sphere
    IN  { found[k] : k \in { j \in DOMAIN found :
                                 hits[h].side * SurfelSide[found[j]] > 0 } }

\* C15: the neighborhood selected for a hit is never empty; it is exactly
\* [nearest_idx] when the query found no front-facing surfel, and otherwise
\* it holds every front-facing surfel found, once, and nothing else.
C15_NeighborhoodNonEmpty ==
    \A h \in Selected :
        LET N == IdxsOf(h)
        IN  /\ Len(N) >= 1
            /\ FrontFacing(h) = {} => N = << PointTable[hits[h].point].nearest >>
            /\ FrontFacing(h) # {} =>
                  /\ { N[k] : k \in DOMAIN N } = FrontFacing(h)
                  /\ Len(N) = Cardinality(FrontFacing(h))

\* deterioration reads N[0] of a hit whose sphere query found surfels that
\* the filter removed, all of them, while another hit kept a part of its
\* query's result
C15_Witness ==
    /\ pc = "deteriorate"
    /\ \E h \in DOMAIN hits :
          /\ PointTable[hits[h].point].sphere # <<>>
          /\ FrontFacing(h) = {}
          /\ h \in done
    /\ \E h \in DOMAIN hits :
          /\ FrontFacing(h) # {}
          /\ Len(IdxsOf(h)) < Len(PointTable[hits[h].point].sphere)

\* the particle of hit h (its index among the iteration's emissions)
IdOf(h) == hist.ids[h]

\* C16: a particle that completed a settle exchange, or whose initial or
\* next trace returned None, has left the iteration: it is in no hits
\* vector that a layer starts from and it is never the particle the
\* exchange is about to serve; and no particle starts a second settle
\* exchange.
C16_SettleIsLast ==
    /\ pc \in {"loop", "select", "deteriorate"} =>
          \A h \in DOMAIN hits : IdOf(h) \notin hist.retired
    /\ pc = "exchange" => IdOf(ex_i) \notin hist.retired
    /\ \A id \in DOMAIN hist.settles : hist.settles[id] <= 1
    /\ pc \in LayerPhases \cup {"loop"} =>
          /\ Len(hist.ids) = Len(hits)
          /\ \A g, h \in DOMAIN hits : g # h => IdOf(g) # IdOf(h)

\* two layers have ended, after which one particle has left the iteration
\* through its settle exchange and the other through a trace that missed
C16_Witness ==
    /\ layer = 2 /\ pc = "loop"
    /\ \E a, b \in DOMAIN hist.settles :
          /\ a \in hist.retired /\ hist.settles[a] = 1
          /\ b \in hist.retired /\ hist.settles[b] = 0

\* C17: a step applies the rule pass only when no particle is alive and no
\* pass has been applied in this iteration; once a pass has been applied,
\* no later step of the iteration writes the surface or brings a particle
\* into hits; and an iteration ends with exactly one pass applied.
C17_RulePassOnceAtEnd ==
    [][ /\ (hist'.iter = hist.iter /\ hist'.rule_passes # hist.rule_passes) =>
             /\ hits = <<>>
             /\ hist.rule_passes = 0
             /\ hist'.rule_passes = 1
        /\ (hist'.iter = hist.iter /\ hist.rule_passes >= 1) =>
             /\ surface' = surface
             /\ hits' = <<>>
        /\ pc' = "finished" => hist'.rule_passes = 1
      ]_vars

\* a second iteration has ended whose particle went through two layers and
\* changed the surface before the rule pass
C17_Witness ==
    /\ pc = "finished"
    /\ hist.iter = 2
    /\ layer = 2
    /\ hist.rule_passes = 1
    /\ \E s \in DOMAIN surface :
          surface[s].substances # perform_rules(hist.start, surfel_rules)[s].substances

\* a surfel without its substances
Frame(surfel) == [surfel EXCEPT !.substances = <<>>]

\* C19: no step of any iteration changes the sources, the global rules or
\* the scene, nor the number of surfels, nor any field of a surfel other
\* than its substances; so all of them keep their values of construction.
C19_OnlySubstancesChange ==
    [][ /\ sources' = sources
        /\ surfel_rules' = surfel_rules
        /\ closed' = closed
        /\ DOMAIN surface' = DOMAIN surface
        /\ \A s \in DOMAIN surface : Frame(surface'[s]) = Frame(surface[s])
      ]_vars

\* a second iteration has ended in which the particle settled, on a surface
\* whose substances are no longer those of construction but whose other
\* fields are
C19_Witness ==
    /\ pc = "finished"
    /\ hist.iter = 2
    /\ \E id \in DOMAIN hist.settles : hist.settles[id] = 1
    /\ \E s \in DOMAIN surface : surface[s].substances # SimSurface[s].substances
    /\ \A s \in DOMAIN surface : Frame(surface[s]) = Frame(SimSurface[s])

\* every source has emission_count = 0
NoEmission == \A k \in DOMAIN sources : sources[k].emission_count = 0

\* particles were emitted and the initial trace of every one of them missed
AllMissed ==
    /\ emissions # <<>>
    /\ layer = 0
    /\ hist.retired = DOMAIN emissions

\* C20: an iteration without emissions, and one whose initial traces all
\* missed, ends with every surfel's substances being what the global rules
\* followed by the surfel's local rules make of its substances at the
\* start of the iteration.
C20_OnlyRulePass ==
    (pc = "finished" /\ (NoEmission \/ AllMissed)) =>
        \A s \in DOMAIN surface :
            surface[s].substances =
                InOrder(hist.start[s].substances,
                        surfel_rules \o hist.start[s].rules, 1)

\* an iteration has ended in which two particles were emitted, both missed,
\* and the rule pass changed a surfel
C20_Witness ==
    /\ pc = "finished"
    /\ AllMissed
    /\ Len(emissions) = 2
    /\ \E s \in DOMAIN surface : surface[s].substances # hist.start[s].substances


\* C24: at each contact the motion type is drawn from the probabilities the
\* particle had before that contact's deterioration, and the deterioration
\* task of a hit changes the particle only if it did not select Settled,
\* then by the deltas of the first surfel N[0] of its neighborhood.
C24_DeteriorateNonSettled ==
    [][(pc = "deteriorate" /\ pc' = "deteriorate")
         => \A h \in done' \ done :
               hits'[h].ton =
                  IF interaction_info[h][1] = "Settled" THEN hits[h].ton
                  ELSE deteriorate(hits[h].ton,
                                   surface[interaction_info[h][2][1]])]_vars


\* the last operation was an exchange under the Differential rule
LastIsDifferential ==
    /\ hist # <<>>
    /\ ~panicked
    /\ Last.op = "perform"
    /\ (IF Last.motion = "Settled" THEN SettleRule(config) ELSE BounceRule(config))
          = "Differential"

\* r = w * (deposition_rate - pickup_rate) of channel i for the one surfel
\* of the last exchange
LastRate(i) ==
    RSub(Last.surface[Last.idxs[1]].deposition_rates[i], Last.ton.pickup_rates[i])

DeltasPositive ==
    \A s \in DOMAIN surface :
        /\ surface[s].delta_straight >= 1
        /\ surface[s].delta_parabolic >= 1
        /\ surface[s].delta_flow >= 1

NoProbability(ton) ==
    ton.p_straight = 0 /\ ton.p_parabolic = 0 /\ ton.p_flow = 0

\* C26: if every delta of every surfel is at least d = 1/PScale, every
\* particle has lost its three probabilities after a number of contacts
\* bounded in terms of 1/d (here 2/d - 3), selects Settled at its next
\* contact, so no particle has more than 2/d - 2 contacts, and the
\* iteration ends.
C26_SettlesAndTerminates ==
    DeltasPositive =>
        /\ [](/\ ((layer >= SettleContacts /\ pc \in {"exchange", "next_hit"})
                    => (\A h \in DOMAIN hits : NoProbability(hits[h].ton)))
               /\ ((layer > SettleContacts
                     /\ pc \in {"deteriorate", "exchange", "next_hit"})
                    => (\A g \in DOMAIN hits :
                           interaction_info[g][1] = "Settled"))
               /\ layer <= SettleContacts + 1)
        /\ <>(pc = "finished")

\* in a closed scene a particle settles at the contact after the one that
\* took its last probability, having bounced 2/d - 3 times
C26_Witness ==
    /\ DeltasPositive
    /\ closed
    /\ layer = SettleContacts + 1
    /\ pc = "exchange"
    /\ interaction_info[1][1] = "Settled"


RECURSIVE Visited(_, _, _, _)
\* the points a particle touches from its k-th contact on
Visited(ton, point, contacts, k) ==
    LET surfel_idxs == interaction_idxs(Hit(ton, point, PointTable[point].side))
    IN  {point} \cup
        IF \/ select_motion_type(ton, contacts[k].random) = "Settled"
           \/ contacts[k].next = None
           \/ k = Len(contacts)
        THEN {}
        ELSE Visited(deteriorate(ton, surface[surfel_idxs[1]]),
                     contacts[k].next, contacts, k + 1)

\* the surfels in the interaction neighborhoods of emission e
NeighborhoodsOf(e) ==
    LET ton == flat_map_emit(sources)[e]
        points == IF trace[e].first = None THEN {}
                  ELSE Visited(ton, trace[e].first, trace[e].contacts, 1)
    IN  UNION { { interaction_idxs(Hit(ton, q, PointTable[q].side))[j] :
                    j \in 1..Len(interaction_idxs(Hit(ton, q, PointTable[q].side))) }
                : q \in points }

PairwiseDisjoint ==
    \A e, f \in 1..Len(flat_map_emit(sources)) :
        e # f => NeighborhoodsOf(e) \cap NeighborhoodsOf(f) = {}

SubstancesOf(surf) == [s \in DOMAIN surf |-> surf[s].substances]

\* C27: for the same emissions, draws and trace results, and particles with
\* pairwise disjoint interaction neighborhoods, the layered iteration
\* run_fast ends with the surfel substances the depth-first iteration run
\* ends with.
C27_SameSurfaceAsRun ==
    (pc = "finished" /\ PairwiseDisjoint)
        => SubstancesOf(surface)
             = SubstancesOf(run(sources, hist.start, surfel_rules, trace))


\* the last exchange, had the query returned the neighborhood in the other
\* order
Reordered == perform(config, Last.ton, Last.surface, Last.motion, Reverse(Last.idxs))

SameExchange(r) ==
    /\ r.ton.substances = TheTon.substances
    /\ \A k \in 1..Len(Last.idxs) :
          r.surface[Last.idxs[k]].substances = surface[Last.idxs[k]].substances

\* C28: the exchange of one hit gives the same particle substances and the
\* same substances of every surfel of N for every order of N, for Absorb
\* with non-negative pickup rates and for Deposit.
C28_OrderIndependent ==
    /\ (config = "Classic" /\ LastIsBounce /\ ~Reordered.panic
         /\ \A i \in Channels : RGeq(Last.ton.pickup_rates[i], RZero))
          => SameExchange(Reordered)
    /\ (config = "Classic" /\ LastIsSettle /\ ~Reordered.panic)
          => SameExchange(Reordered)

=============================================================================
